---- MODULE Spec2Model ----
(***************************************************************************)
(* A model of the image customizer library (imagecustomizerlib): the       *)
(* CustomizeImage pipeline, its configuration validators, the partition    *)
(* resolver and the grub.cfg patch of the dm-verity integration.           *)
(*                                                                         *)
(* Strings the code only compares as a whole are TLA+ strings; text the    *)
(* code inspects character by character (grub.cfg lines) is a sequence of  *)
(* one-character strings.  An error value is the sequence of the messages  *)
(* of its wrap chain, outermost first; the nil error is the empty          *)
(* sequence.                                                               *)
(***************************************************************************)
EXTENDS Integers, Sequences, FiniteSets, TLC

VARIABLES
    \* CustomizeImage (src/unnamed/part_001)
    pc,        \* the statement CustomizeImage is at
    params,    \* the arguments CustomizeImage was called with
    config,    \* *imagecustomizerapi.Config
    cp,        \* *CommonParameters
    err,       \* CustomizeImage's local variable err
    ret,       \* CustomizeImage's (unnamed) result
    deferred,  \* whether the clean-up closure has been deferred
    trace,     \* the external operations performed so far, in order
    \* one call of a helper function
    call,
    \* updateGrubConfig and the grub.cfg file it patches
    grubCfg,
    grubCall,
    \* customizeVerityImageHelper: its position, local variables and operations
    verity,
    \* dmsquash-live-root.sh: its position, shell variables and operations
    boot,
    \* the NBD nodes of the host and the verity stages that run on it
    nbd

pipeVars == <<pc, params, config, cp, err, ret, deferred, trace>>
grubVars == <<grubCfg, grubCall>>
vars == <<pc, params, config, cp, err, ret, deferred, trace, call, grubCfg, grubCall, verity, boot, nbd>>

\* No verity stage on the host
NbdIdle == [pc |-> "idle"]

Nil == <<>>

\* fmt.Errorf("msg:\n%w", inner)
Wrap(msg, inner) == <<msg>> \o inner

(***************************************************************************)
(* Constants of the package.                                               *)
(***************************************************************************)
ImageFormatVhd == "vhd"
ImageFormatVhdx == "vhdx"
ImageFormatQCow2 == "qcow2"
ImageFormatIso == "iso"
ImageFormatRaw == "raw"
QemuFormatVpc == "vpc"
BaseImageName == "image.raw"
PartitionCustomizedImageName == "image2.raw"

(***************************************************************************)
(* toQemuImageFormat                                                       *)
(***************************************************************************)
ErrUnsupportedFormat(imageFormat) ==
    <<"unsupported image format (supported: vhd, vhdx, raw, qcow2): %s", imageFormat>>

\* The switch without the vhd case: vhd falls through as itself
toQemuImageFormat_VhdUnmapped(imageFormat) ==
    IF imageFormat \in {ImageFormatVhd, ImageFormatVhdx, ImageFormatRaw, ImageFormatQCow2}
    THEN [format |-> imageFormat, err |-> Nil]
    ELSE [format |-> "", err |-> ErrUnsupportedFormat(imageFormat)]

toQemuImageFormat(imageFormat) ==
    IF imageFormat = ImageFormatVhd
    THEN [format |-> QemuFormatVpc, err |-> Nil]
    ELSE IF imageFormat \in {ImageFormatVhdx, ImageFormatRaw, ImageFormatQCow2}
    THEN [format |-> imageFormat, err |-> Nil]
    ELSE [format |-> "", err |-> ErrUnsupportedFormat(imageFormat)]

(***************************************************************************)
(* Package lists.  A package list file is a file of the configuration      *)
(* directory: pkgs.yaml names one package, empty.yaml names none and       *)
(* missing.yaml cannot be read.                                            *)
(***************************************************************************)
PackageListFiles == {"pkgs.yaml", "empty.yaml", "missing.yaml"}

PackageListReadable(listFile) == listFile # "missing.yaml"

PackageListContents(listFile) == IF listFile = "pkgs.yaml" THEN <<"q">> ELSE <<>>

RECURSIVE PackagesOfLists(_)
PackagesOfLists(packageLists) ==
    IF packageLists = <<>> THEN <<>>
    ELSE PackageListContents(Head(packageLists)) \o PackagesOfLists(Tail(packageLists))

\* The packages of the list files, in order, then the inline packages; the
\* first list file that cannot be read is the error.
collectPackagesList(packageLists, packages) ==
    IF \E i \in 1..Len(packageLists) : ~PackageListReadable(packageLists[i])
    THEN [list |-> <<>>, err |-> <<"failed to read package list file">>]
    ELSE [list |-> PackagesOfLists(packageLists) \o packages, err |-> Nil]

ErrNeedRpmsSources ==
    <<"have packages to install or update but no RPM sources were specified">>

ErrPartitionsNeedRpmsSources ==
    <<"partitions were customized so the initramfs package needs to be reinstalled but no RPM sources were specified">>

\* The assignments that end a successful validatePackageLists
MergedPackages_ListsKept(packages, allPackagesRemove, allPackagesInstall, allPackagesUpdate) ==
    [packages EXCEPT !.Remove = allPackagesRemove,
                     !.Install = allPackagesInstall,
                     !.Update = allPackagesUpdate]

MergedPackages(packages, allPackagesRemove, allPackagesInstall, allPackagesUpdate) ==
    [packages EXCEPT !.Remove = allPackagesRemove,
                     !.Install = allPackagesInstall,
                     !.Update = allPackagesUpdate,
                     !.RemoveLists = <<>>,
                     !.InstallLists = <<>>,
                     !.UpdateLists = <<>>]

validatePackageLists_RemoveNeedsSources(packages, rpmsSources, useBaseImageRpmRepos, partitionsCustomized) ==
    LET allPackagesRemove == collectPackagesList(packages.RemoveLists, packages.Remove)
        allPackagesInstall == collectPackagesList(packages.InstallLists, packages.Install)
        allPackagesUpdate == collectPackagesList(packages.UpdateLists, packages.Update)
        hasRpmSources == Len(rpmsSources) > 0 \/ useBaseImageRpmRepos
        needRpmsSources == \/ Len(allPackagesInstall.list) > 0
                           \/ Len(allPackagesUpdate.list) > 0
                           \/ Len(allPackagesRemove.list) > 0
                           \/ packages.UpdateExistingPackages
    IN  IF allPackagesRemove.err # Nil THEN [err |-> allPackagesRemove.err, Packages |-> packages]
        ELSE IF allPackagesInstall.err # Nil THEN [err |-> allPackagesInstall.err, Packages |-> packages]
        ELSE IF allPackagesUpdate.err # Nil THEN [err |-> allPackagesUpdate.err, Packages |-> packages]
        ELSE IF ~hasRpmSources /\ needRpmsSources THEN [err |-> ErrNeedRpmsSources, Packages |-> packages]
        ELSE IF ~hasRpmSources /\ partitionsCustomized
        THEN [err |-> ErrPartitionsNeedRpmsSources, Packages |-> packages]
        ELSE [err |-> Nil,
              Packages |-> MergedPackages(packages, allPackagesRemove.list,
                                          allPackagesInstall.list, allPackagesUpdate.list)]

\* The result is the error and the configuration's Packages section as the
\* call leaves it.
validatePackageLists(packages, rpmsSources, useBaseImageRpmRepos, partitionsCustomized) ==
    LET allPackagesRemove == collectPackagesList(packages.RemoveLists, packages.Remove)
        allPackagesInstall == collectPackagesList(packages.InstallLists, packages.Install)
        allPackagesUpdate == collectPackagesList(packages.UpdateLists, packages.Update)
        hasRpmSources == Len(rpmsSources) > 0 \/ useBaseImageRpmRepos
        needRpmsSources == \/ Len(allPackagesInstall.list) > 0
                           \/ Len(allPackagesUpdate.list) > 0
                           \/ packages.UpdateExistingPackages
    IN  IF allPackagesRemove.err # Nil THEN [err |-> allPackagesRemove.err, Packages |-> packages]
        ELSE IF allPackagesInstall.err # Nil THEN [err |-> allPackagesInstall.err, Packages |-> packages]
        ELSE IF allPackagesUpdate.err # Nil THEN [err |-> allPackagesUpdate.err, Packages |-> packages]
        ELSE IF ~hasRpmSources /\ needRpmsSources THEN [err |-> ErrNeedRpmsSources, Packages |-> packages]
        ELSE IF ~hasRpmSources /\ partitionsCustomized
        THEN [err |-> ErrPartitionsNeedRpmsSources, Packages |-> packages]
        ELSE [err |-> Nil,
              Packages |-> MergedPackages(packages, allPackagesRemove.list,
                                          allPackagesInstall.list, allPackagesUpdate.list)]

hasPartitionCustomizations(cfg) == cfg.Storage


(***************************************************************************)
(* validateScript.  A script path is whether it is absolute and its        *)
(* components; os.Stat of the joined path succeeds with a permission mode  *)
(* or fails.                                                               *)
(***************************************************************************)
MaxPathLen == 3

PathComponents == {"..", ".", "scripts", "setup.sh"}

RECURSIVE SeqsUpTo(_, _)
\* The sequences over S of length at most n
SeqsUpTo(S, n) ==
    IF n = 0 THEN {<<>>}
    ELSE LET shorter == SeqsUpTo(S, n - 1)
         IN  shorter \cup {Append(q, x) : q \in shorter, x \in S}

ScriptPaths == [abs : BOOLEAN, parts : SeqsUpTo(PathComponents, MaxPathLen)]

\* 0, --x, -x-, x--, 0111, 0644, 0755, 0400, 0666, 0744, 0002
FileModes == {0, 1, 8, 64, 73, 420, 493, 256, 438, 484, 2}

StatResults == {[ok |-> FALSE, mode |-> 0]} \cup [ok : {TRUE}, mode : FileModes]

\* filepath.Clean of a relative path, component by component: "." is dropped
\* and ".." removes the component before it, or stays when there is none.
RECURSIVE CleanInto(_, _)
CleanInto(out, parts) ==
    IF parts = <<>> THEN out
    ELSE LET part == Head(parts)
         IN  IF part = "." THEN CleanInto(out, Tail(parts))
             ELSE IF part = ".." /\ out # <<>> /\ out[Len(out)] # ".."
             THEN CleanInto(SubSeq(out, 1, Len(out) - 1), Tail(parts))
             ELSE CleanInto(Append(out, part), Tail(parts))

Clean(parts) == CleanInto(<<>>, parts)

\* filepath.IsLocal
IsLocal(path) ==
    IF path.abs \/ path.parts = <<>> THEN FALSE
    ELSE LET hasDots == \E i \in 1..Len(path.parts) : path.parts[i] \in {".", ".."}
             cleaned == IF hasDots THEN Clean(path.parts) ELSE path.parts
         IN  ~(cleaned # <<>> /\ cleaned[1] = "..")

RECURSIVE BitAnd(_, _)
BitAnd(a, b) ==
    IF a = 0 \/ b = 0 THEN 0
    ELSE (a % 2) * (b % 2) + 2 * BitAnd(a \div 2, b \div 2)

\* 0111
ExecMask == 73

ErrNotUnderConfigDir == <<"install script (%s) is not under config directory (%s)">>

ErrCouldNotRead == <<"couldn't read install script (%s):", "os.Stat">>

ErrNotExecutable == <<"install script (%s) does not have executable bit set">>

validateScript_DecimalMask(path, scriptStat) ==
    IF ~IsLocal(path) THEN ErrNotUnderConfigDir
    ELSE IF ~scriptStat.ok THEN ErrCouldNotRead
    ELSE IF BitAnd(scriptStat.mode, 111) = 0 THEN ErrNotExecutable
    ELSE Nil

\* scriptStat is what os.Stat(filepath.Join(baseConfigPath, script.Path)) gives.
validateScript(path, scriptStat) ==
    IF ~IsLocal(path) THEN ErrNotUnderConfigDir
    ELSE IF ~scriptStat.ok THEN ErrCouldNotRead
    ELSE IF BitAnd(scriptStat.mode, ExecMask) = 0 THEN ErrNotExecutable
    ELSE Nil

(***************************************************************************)
(* idToPartitionBlockDevicePath                                            *)
(***************************************************************************)
MaxPartitions == 2

IdTypePartlabel == "partlabel"
IdTypeUuid == "uuid"
IdTypePartuuid == "partuuid"

IdTypes == {IdTypePartlabel, IdTypeUuid, IdTypePartuuid, "devpath", ""}

PartitionIds == {"a", "b"}

PartitionPath(nbdDevice, n) == <<nbdDevice, "p", n>>

WithPaths(nbdDevice, fields) ==
    [n \in 1..Len(fields) |->
        [Path |-> PartitionPath(nbdDevice, n), Uuid |-> fields[n].Uuid,
         PartUuid |-> fields[n].PartUuid, PartLabel |-> fields[n].PartLabel]]

\* The partition lists diskutils.GetDiskPartitions can give: the n-th entry
\* is the n-th partition of the device.
DiskPartitionLists(nbdDevice) ==
    {WithPaths(nbdDevice, fields) :
        fields \in UNION {[1..n -> [Uuid : PartitionIds, PartUuid : PartitionIds,
                                    PartLabel : PartitionIds]] : n \in 0..MaxPartitions}}

ErrInvalidIdType(idType) == <<"invalid idType provided (%s)", idType>>

ErrNoPartitionFound(idType, id) == <<"no partition found for %s: %s", idType, id>>

RECURSIVE idToPartitionBlockDevicePath_UuidReadsPartUuid(_, _, _, _)
idToPartitionBlockDevicePath_UuidReadsPartUuid(idType, id, nbdDevice, diskPartitions) ==
    IF diskPartitions = <<>>
    THEN [path |-> <<>>, err |-> ErrNoPartitionFound(idType, id)]
    ELSE LET partition == Head(diskPartitions)
             rest == idToPartitionBlockDevicePath_UuidReadsPartUuid(idType, id, nbdDevice, Tail(diskPartitions))
             found == [path |-> partition.Path, err |-> Nil]
         IN  CASE idType = IdTypePartlabel -> IF partition.PartLabel = id THEN found ELSE rest
               [] idType = IdTypeUuid -> IF partition.PartUuid = id THEN found ELSE rest
               [] idType = IdTypePartuuid -> IF partition.PartUuid = id THEN found ELSE rest
               [] OTHER -> [path |-> <<>>, err |-> ErrInvalidIdType(idType)]

RECURSIVE idToPartitionBlockDevicePath(_, _, _, _)
\* The loop over diskPartitions: the switch on idType is inside the loop.
idToPartitionBlockDevicePath(idType, id, nbdDevice, diskPartitions) ==
    IF diskPartitions = <<>>
    THEN [path |-> <<>>, err |-> ErrNoPartitionFound(idType, id)]
    ELSE LET partition == Head(diskPartitions)
             rest == idToPartitionBlockDevicePath(idType, id, nbdDevice, Tail(diskPartitions))
             found == [path |-> partition.Path, err |-> Nil]
         IN  CASE idType = IdTypePartlabel -> IF partition.PartLabel = id THEN found ELSE rest
               [] idType = IdTypeUuid -> IF partition.Uuid = id THEN found ELSE rest
               [] idType = IdTypePartuuid -> IF partition.PartUuid = id THEN found ELSE rest
               [] OTHER -> [path |-> <<>>, err |-> ErrInvalidIdType(idType)]


(***************************************************************************)
(* CustomizeImage.  The inputs of one run are the configuration and the    *)
(* arguments; every external tool either succeeds or fails.                *)
(***************************************************************************)
EmptyPackages ==
    [Install |-> <<>>, Remove |-> <<>>, Update |-> <<>>,
     InstallLists |-> <<>>, RemoveLists |-> <<>>, UpdateLists |-> <<>>,
     UpdateExistingPackages |-> FALSE]

\* config.OS == nil
NilOS == [present |-> FALSE, Packages |-> EmptyPackages, Verity |-> FALSE]

PipelinePackages ==
    {EmptyPackages, [EmptyPackages EXCEPT !.Install = <<"p">>]}

PipelineConfigs ==
    [Storage : BOOLEAN,
     Iso : BOOLEAN,
     OS : {NilOS} \cup [present : {TRUE}, Packages : PipelinePackages, Verity : BOOLEAN]]

PipelineParams ==
    [imageFile : [base : {"base"}, ext : {".iso", ".vhdx"}],
     rpmsSources : {<<>>, <<"rpms">>},
     outputImageFormat : {"vhd", "vhdx", "qcow2", "raw", "iso", "", "vmdk"},
     outputSplitPartitionsFormat : {"", "raw"},
     useBaseImageRpmRepos : BOOLEAN,
     enableShrinkFilesystems : BOOLEAN]

\* filepath.Ext of the input image path
Ext(imageFile) == imageFile.ext

\* cp before initCommonParameters has run
NilCP ==
    [customizeOSPartitions |-> FALSE, rawImageFile |-> "", outputImageFormat |-> "",
     qemuOutputImageFormat |-> "", isoBuilder |-> FALSE]

\* An operation of the run.  acquired are the attachments of the working
\* image the operation took (image connection, loop device, NBD node, mount)
\* and released those it had given back when it returned.
StageOp(op, file, ok, acquired, released) ==
    [op |-> op, file |-> file, ok |-> ok, acquired |-> acquired, released |-> released]

Op(op, file, ok) == StageOp(op, file, ok, {}, {})

\* A return statement of CustomizeImage: the result is set, then the deferred
\* closure, when there is one, runs.
Return(value) ==
    /\ ret' = value
    /\ pc' = IF deferred THEN "deferred" ELSE "returned"

PipelineInit ==
    /\ pc = "validateConfig"
    /\ params \in PipelineParams
    /\ config \in PipelineConfigs
    /\ cp = NilCP
    /\ err = Nil
    /\ ret = Nil
    /\ deferred = FALSE
    /\ trace = <<>>

\* validateConfig, as CustomizeImage calls it.  config.IsValid and the checks
\* of additional files and scripts each pass or fail; validateSystemConfig
\* reads config.OS.Packages without testing config.OS.
ValidateConfig ==
    /\ pc = "validateConfig"
    /\ \E isValid \in BOOLEAN, isoFilesOk \in BOOLEAN, osFilesOk \in BOOLEAN, scriptsOk \in BOOLEAN :
         LET partitionsCustomized == hasPartitionCustomizations(config)
             checked == validatePackageLists(config.OS.Packages, params.rpmsSources,
                                             params.useBaseImageRpmRepos, partitionsCustomized)
             fail(e) == /\ err' = e
                        /\ Return(Wrap("invalid image config:", e))
                        /\ UNCHANGED config
         IN  IF ~isValid THEN fail(<<"config.IsValid">>)
             ELSE IF config.Iso /\ ~isoFilesOk THEN fail(<<"invalid additionalFiles source file">>)
             ELSE IF ~config.OS.present
             THEN /\ pc' = "panicked"
                  /\ UNCHANGED <<config, err, ret>>
             ELSE IF checked.err # Nil THEN fail(checked.err)
             ELSE IF ~osFilesOk
             THEN /\ err' = <<"invalid additionalFiles source file">>
                  /\ Return(Wrap("invalid image config:", err'))
                  /\ config' = [config EXCEPT !.OS.Packages = checked.Packages]
             ELSE IF ~scriptsOk
             THEN /\ err' = <<"invalid PostInstallScripts item">>
                  /\ Return(Wrap("invalid image config:", err'))
                  /\ config' = [config EXCEPT !.OS.Packages = checked.Packages]
             ELSE /\ err' = Nil
                  /\ pc' = "initCommonParameters"
                  /\ config' = [config EXCEPT !.OS.Packages = checked.Packages]
                  /\ UNCHANGED ret
    /\ UNCHANGED <<params, cp, deferred, trace, call, grubVars, verity, boot, nbd>>

\* The two directories initCommonParameters creates
BuildDir == "buildDirAbs"

OutputImageDir == "outputImageDir"

\* initCommonParameters: the working and the output directory are created
\* and the output format is translated in between
InitCommonParameters_FormatUnchecked ==
    /\ pc = "initCommonParameters"
    /\ \E absOk \in BOOLEAN, buildDirOk \in BOOLEAN, outputDirOk \in BOOLEAN :
         LET qemu == IF params.outputImageFormat # "" /\ params.outputImageFormat # ImageFormatIso
                     THEN [format |-> toQemuImageFormat(params.outputImageFormat).format,
                           err |-> Nil]
                     ELSE [format |-> "", err |-> Nil]
             fail(e) == /\ err' = e
                        /\ Return(Wrap("failed to initialize image customizer state:", e))
                        /\ UNCHANGED cp
         IN  IF ~absOk
             THEN fail(<<"filepath.Abs">>) /\ UNCHANGED trace
             ELSE IF ~buildDirOk
             THEN /\ fail(<<"os.MkdirAll">>)
                  /\ trace' = Append(trace, Op("os.MkdirAll", BuildDir, FALSE))
             ELSE IF qemu.err # Nil
             THEN /\ fail(qemu.err)
                  /\ trace' = Append(trace, Op("os.MkdirAll", BuildDir, TRUE))
             ELSE IF ~outputDirOk
             THEN /\ fail(<<"os.MkdirAll">>)
                  /\ trace' = trace \o <<Op("os.MkdirAll", BuildDir, TRUE),
                                         Op("os.MkdirAll", OutputImageDir, FALSE)>>
             ELSE /\ cp' = [customizeOSPartitions |-> config.Storage \/ config.OS.present,
                            rawImageFile |-> BaseImageName,
                            outputImageFormat |-> params.outputImageFormat,
                            qemuOutputImageFormat |-> qemu.format,
                            isoBuilder |-> FALSE]
                  /\ trace' = trace \o <<Op("os.MkdirAll", BuildDir, TRUE),
                                         Op("os.MkdirAll", OutputImageDir, TRUE)>>
                  /\ err' = Nil
                  /\ pc' = "convertInput"
                  /\ UNCHANGED ret
    /\ UNCHANGED <<params, config, deferred, call, grubVars, verity, boot, nbd>>

InitCommonParameters ==
    /\ pc = "initCommonParameters"
    /\ \E absOk \in BOOLEAN, buildDirOk \in BOOLEAN, outputDirOk \in BOOLEAN :
         LET qemu == IF params.outputImageFormat # "" /\ params.outputImageFormat # ImageFormatIso
                     THEN toQemuImageFormat(params.outputImageFormat)
                     ELSE [format |-> "", err |-> Nil]
             fail(e) == /\ err' = e
                        /\ Return(Wrap("failed to initialize image customizer state:", e))
                        /\ UNCHANGED cp
         IN  IF ~absOk
             THEN fail(<<"filepath.Abs">>) /\ UNCHANGED trace
             ELSE IF ~buildDirOk
             THEN /\ fail(<<"os.MkdirAll">>)
                  /\ trace' = Append(trace, Op("os.MkdirAll", BuildDir, FALSE))
             ELSE IF qemu.err # Nil
             THEN /\ fail(qemu.err)
                  /\ trace' = Append(trace, Op("os.MkdirAll", BuildDir, TRUE))
             ELSE IF ~outputDirOk
             THEN /\ fail(<<"os.MkdirAll">>)
                  /\ trace' = trace \o <<Op("os.MkdirAll", BuildDir, TRUE),
                                         Op("os.MkdirAll", OutputImageDir, FALSE)>>
             ELSE /\ cp' = [customizeOSPartitions |-> config.Storage \/ config.OS.present,
                            rawImageFile |-> BaseImageName,
                            outputImageFormat |-> params.outputImageFormat,
                            qemuOutputImageFormat |-> qemu.format,
                            isoBuilder |-> FALSE]
                  /\ trace' = trace \o <<Op("os.MkdirAll", BuildDir, TRUE),
                                         Op("os.MkdirAll", OutputImageDir, TRUE)>>
                  /\ err' = Nil
                  /\ pc' = "convertInput"
                  /\ UNCHANGED ret
    /\ UNCHANGED <<params, config, deferred, call, grubVars, verity, boot, nbd>>

\* The external operations convertInputImageToWriteableFormat performs, in order.
ConvertInputSteps ==
    IF Ext(params.imageFile) = ".iso"
    THEN <<"ioutil.TempDir", "copyIsoImageContentsToFolder", "isoBuilderFromFolder">>
         \o (IF cp.customizeOSPartitions THEN <<"createWriteableImageFromSquashfs">> ELSE <<>>)
    ELSE <<"qemu-img convert -O raw">>

\* The file a step of convertInputImageToWriteableFormat writes: the working
\* raw image for the two steps that produce it.
StepFile(op) ==
    IF op \in {"createWriteableImageFromSquashfs", "qemu-img convert -O raw"}
    THEN cp.rawImageFile
    ELSE ""

\* The first n steps ran; the last of them succeeded or failed.
StepsRun(steps, n, lastOk) ==
    [i \in 1..n |-> Op(steps[i], StepFile(steps[i]), (i < n) \/ lastOk)]

ConvertInputImageToWriteableFormat ==
    /\ pc = "convertInput"
    /\ \E n \in 1..Len(ConvertInputSteps), lastOk \in BOOLEAN :
         /\ (n < Len(ConvertInputSteps)) => ~lastOk
         /\ trace' = trace \o StepsRun(ConvertInputSteps, n, lastOk)
         /\ cp' = [cp EXCEPT !.isoBuilder =
                       \E i \in 1..n : /\ ConvertInputSteps[i] = "isoBuilderFromFolder"
                                       /\ (i < n \/ lastOk)]
         /\ IF lastOk
            THEN /\ err' = Nil
                 /\ deferred' = TRUE
                 /\ pc' = "customizeOSContents"
                 /\ UNCHANGED ret
            ELSE /\ err' = <<ConvertInputSteps[n]>>
                 /\ Return(Wrap("failed to convert input image to writeable raw image:", err'))
                 /\ UNCHANGED deferred
    /\ UNCHANGED <<params, config, call, grubVars, verity, boot, nbd>>


\* A stage of customizeOSContents failed: customizeOSContents returns e and
\* CustomizeImage returns it wrapped.
FailCustomize(e) ==
    /\ err' = e
    /\ Return(Wrap("failed to customize raw image:", e))

\* The image customizePartitions hands back: a new image when the
\* configuration has a Storage section, the image it was given otherwise.
customizePartitions(cfg, buildImageFile) ==
    IF cfg.Storage
    THEN [partitionsCustomized |-> TRUE, newRawImageFile |-> PartitionCustomizedImageName]
    ELSE [partitionsCustomized |-> FALSE, newRawImageFile |-> buildImageFile]

\* The start of customizeOSContents: it returns at once when no customization
\* was requested, and customizes the partitions otherwise.
CustomizePartitions ==
    /\ pc = "customizeOSContents"
    /\ IF ~cp.customizeOSPartitions
       THEN /\ err' = Nil
            /\ pc' = "convertOutput"
            /\ UNCHANGED <<cp, ret, trace>>
       ELSE \E ok \in BOOLEAN :
              /\ (~config.Storage) => ok
              /\ trace' = Append(trace, Op("customizePartitions", cp.rawImageFile, ok))
              /\ IF ok
                 THEN /\ cp' = [cp EXCEPT !.rawImageFile =
                                     customizePartitions(config, cp.rawImageFile).newRawImageFile]
                      /\ err' = Nil
                      /\ pc' = "customizeImageHelper"
                      /\ UNCHANGED ret
                 ELSE /\ FailCustomize(<<"customizePartitions">>)
                      /\ UNCHANGED cp
    /\ UNCHANGED <<params, config, deferred, call, grubVars, verity, boot, nbd>>

\* What a helper that attaches the image through one scoped wrapper holds
\* and has closed at its return: the wrapper's Close is deferred right after
\* the attachment succeeded
Scoped(wrapper, attached) ==
    [acquired |-> IF attached THEN {wrapper} ELSE {},
     released |-> IF attached THEN {wrapper} ELSE {}]

\* The helper without the deferred Close: the connection is closed by
\* CleanClose on the success path only
CustomizeImageHelper_NoDeferredClose ==
    /\ pc = "customizeImageHelper"
    /\ \E ok \in BOOLEAN, attached \in BOOLEAN :
         LET scoped == Scoped("imageConnection", attached) IN
         /\ ok => attached
         /\ trace' = Append(trace, StageOp("customizeImageHelper", cp.rawImageFile, ok,
                                           scoped.acquired,
                                           IF ok THEN scoped.released ELSE {}))
         /\ IF ok
            THEN /\ err' = Nil
                 /\ pc' = "shrinkFilesystems"
                 /\ UNCHANGED ret
            ELSE FailCustomize(<<"customizeImageHelper">>)
    /\ UNCHANGED <<params, config, cp, deferred, call, grubVars, verity, boot, nbd>>

CustomizeImageHelper ==
    /\ pc = "customizeImageHelper"
    /\ \E ok \in BOOLEAN, attached \in BOOLEAN :
         LET scoped == Scoped("imageConnection", attached) IN
         /\ ok => attached
         /\ trace' = Append(trace, StageOp("customizeImageHelper", cp.rawImageFile, ok,
                                           scoped.acquired, scoped.released))
         /\ IF ok
            THEN /\ err' = Nil
                 /\ pc' = "shrinkFilesystems"
                 /\ UNCHANGED ret
            ELSE FailCustomize(<<"customizeImageHelper">>)
    /\ UNCHANGED <<params, config, cp, deferred, call, grubVars, verity, boot, nbd>>

ShrinkFilesystems ==
    /\ pc = "shrinkFilesystems"
    /\ IF params.enableShrinkFilesystems
       THEN \E ok \in BOOLEAN, attached \in BOOLEAN :
              LET scoped == Scoped("imageLoopback", attached) IN
              /\ ok => attached
              /\ trace' = Append(trace, StageOp("shrinkFilesystemsHelper", cp.rawImageFile, ok,
                                                scoped.acquired, scoped.released))
              /\ IF ok
                 THEN /\ err' = Nil
                      /\ pc' = "customizeVerity"
                      /\ UNCHANGED ret
                 ELSE FailCustomize(Wrap("failed to shrink filesystems:", <<"shrinkFilesystemsHelper">>))
       ELSE /\ pc' = "customizeVerity"
            /\ UNCHANGED <<err, ret, trace>>
    /\ UNCHANGED <<params, config, cp, deferred, call, grubVars, verity, boot, nbd>>

\* What customizeVerityImageHelper can hold when it returns: nothing when
\* no free node was found or qemu-nbd -c failed, the node, or the node and
\* the mount of the boot partition
VerityAttachments == {{}, {"nbdDevice"}, {"nbdDevice", "bootPartitionMount"}}

\* The deferred calls of customizeVerityImageHelper: the mount is closed,
\* and qemu-nbd -d detaches the node unless it fails
VerityReleased(acquired, detachOk) ==
    IF detachOk THEN acquired ELSE acquired \ {"nbdDevice"}

\* if cp.config.OS.Verity != nil: config.OS is read without a test
CustomizeVerity ==
    /\ pc = "customizeVerity"
    /\ IF ~config.OS.present
       THEN /\ pc' = "panicked"
            /\ UNCHANGED <<err, ret, trace>>
       ELSE IF config.OS.Verity
       THEN \E ok \in BOOLEAN, acquired \in VerityAttachments, detachOk \in BOOLEAN :
              /\ ok => acquired = {"nbdDevice", "bootPartitionMount"}
              /\ trace' = Append(trace, StageOp("customizeVerityImageHelper", cp.rawImageFile, ok,
                                                acquired, VerityReleased(acquired, detachOk)))
              /\ IF ok
                 THEN /\ err' = Nil
                      /\ pc' = "checkFileSystems"
                      /\ UNCHANGED ret
                 ELSE FailCustomize(<<"customizeVerityImageHelper">>)
       ELSE /\ pc' = "checkFileSystems"
            /\ UNCHANGED <<err, ret, trace>>
    /\ UNCHANGED <<params, config, cp, deferred, call, grubVars, verity, boot, nbd>>

CheckFileSystems_ErrorIgnored ==
    /\ pc = "checkFileSystems"
    /\ \E ok \in BOOLEAN :
         /\ trace' = Append(trace, Op("checkFileSystems", cp.rawImageFile, ok))
         /\ err' = Nil
         /\ pc' = "extractPartitions"
         /\ UNCHANGED ret
    /\ UNCHANGED <<params, config, cp, deferred, call, grubVars, verity, boot, nbd>>

CheckFileSystems ==
    /\ pc = "checkFileSystems"
    /\ \E ok \in BOOLEAN :
         /\ trace' = Append(trace, Op("checkFileSystems", cp.rawImageFile, ok))
         /\ IF ok
            THEN /\ err' = Nil
                 /\ pc' = "extractPartitions"
                 /\ UNCHANGED ret
            ELSE FailCustomize(Wrap("failed to check filesystems:", <<"checkFileSystems">>))
    /\ UNCHANGED <<params, config, cp, deferred, call, grubVars, verity, boot, nbd>>

ExtractPartitions ==
    /\ pc = "extractPartitions"
    /\ IF params.outputSplitPartitionsFormat # ""
       THEN \E ok \in BOOLEAN, attached \in BOOLEAN :
              LET scoped == Scoped("imageLoopback", attached) IN
              /\ ok => attached
              /\ trace' = Append(trace, StageOp("extractPartitionsHelper", cp.rawImageFile, ok,
                                                scoped.acquired, scoped.released))
              /\ IF ok
                 THEN /\ err' = Nil
                      /\ pc' = "convertOutput"
                      /\ UNCHANGED ret
                 ELSE FailCustomize(<<"extractPartitionsHelper">>)
       ELSE /\ err' = Nil
            /\ pc' = "convertOutput"
            /\ UNCHANGED <<ret, trace>>
    /\ UNCHANGED <<params, config, cp, deferred, call, grubVars, verity, boot, nbd>>

\* A failure of the output stage: CustomizeImage returns it wrapped.
FailOutput(e) ==
    /\ err' = e
    /\ Return(Wrap("failed to convert customized raw image to output format:", e))

\* convertWriteableFormatToOutputImage and, when it succeeds, return nil
ConvertWriteableFormatToOutputImage ==
    /\ pc = "convertOutput"
    /\ IF cp.outputImageFormat \in {ImageFormatVhd, ImageFormatVhdx, ImageFormatQCow2, ImageFormatRaw}
       THEN \E ok \in BOOLEAN :
              /\ trace' = Append(trace, Op("qemu-img convert (output)", cp.rawImageFile, ok))
              /\ IF ok
                 THEN err' = Nil /\ Return(Nil)
                 ELSE FailOutput(Wrap("failed to convert image file to format:", <<"qemu-img">>))
       ELSE IF cp.outputImageFormat = ImageFormatIso /\ cp.customizeOSPartitions
       THEN \E ok \in BOOLEAN :
              /\ trace' = Append(trace, Op("createLiveOSIsoImage", cp.rawImageFile, ok))
              /\ IF ok
                 THEN err' = Nil /\ Return(Nil)
                 ELSE FailOutput(<<"createLiveOSIsoImage">>)
       ELSE IF cp.outputImageFormat = ImageFormatIso /\ ~cp.isoBuilder
       THEN /\ pc' = "panicked"
            /\ UNCHANGED <<err, ret, trace>>
       ELSE IF cp.outputImageFormat = ImageFormatIso
       THEN \E ok \in BOOLEAN :
              /\ trace' = Append(trace, Op("recreateLiveOSIsoImage", "", ok))
              /\ IF ok
                 THEN err' = Nil /\ Return(Nil)
                 ELSE FailOutput(Wrap("failed to create LiveOS ISO:", <<"recreateLiveOSIsoImage">>))
       ELSE /\ err' = Nil
            /\ Return(Nil)
            /\ UNCHANGED trace
    /\ UNCHANGED <<params, config, cp, deferred, call, grubVars, verity, boot, nbd>>

\* The deferred closure.  It runs after the return statement has set the
\* result; CustomizeImage's result is unnamed, so the closure's assignment to
\* the local err does not reach it.
DeferredCleanup ==
    /\ pc = "deferred"
    /\ \E removeOk \in BOOLEAN :
         /\ trace' = Append(trace, Op("RemoveFileIfExists", cp.rawImageFile, removeOk))
         /\ err' = IF removeOk THEN err
                   ELSE IF err # Nil THEN err \o <<"failed to clean-up (%s): %w", "os.Remove">>
                   ELSE <<"failed to clean-up (%s): %w", "os.Remove">>
    /\ pc' = "returned"
    /\ UNCHANGED <<params, config, cp, ret, deferred, call, grubVars, verity, boot, nbd>>


(***************************************************************************)
(* updateGrubConfig (customizeverity.go).  The text of grub.cfg is          *)
(* inspected character by character, so a line is a sequence of            *)
(* one-character strings and the file a sequence of lines.                 *)
(***************************************************************************)
MaxGrubLines == 2

\* strings.TrimSpace removes leading and trailing white space
IsSpace(c) == c \in {" ", "\t", "\r"}

RECURSIVE TrimLeft(_)
TrimLeft(s) == IF s # <<>> /\ IsSpace(Head(s)) THEN TrimLeft(Tail(s)) ELSE s

RECURSIVE TrimRight(_)
TrimRight(s) ==
    IF s # <<>> /\ IsSpace(s[Len(s)]) THEN TrimRight(SubSeq(s, 1, Len(s) - 1)) ELSE s

TrimSpace(s) == TrimRight(TrimLeft(s))

HasPrefix(s, prefix) == Len(s) >= Len(prefix) /\ SubSeq(s, 1, Len(prefix)) = prefix

\* strings.ToUpper on the letters of the identifier type names
ToUpperChar(c) ==
    CASE c = "a" -> "A" [] c = "b" -> "B" [] c = "d" -> "D" [] c = "e" -> "E"
      [] c = "h" -> "H" [] c = "i" -> "I" [] c = "l" -> "L" [] c = "p" -> "P"
      [] c = "r" -> "R" [] c = "t" -> "T" [] c = "u" -> "U" [] c = "v" -> "V"
      [] OTHER -> c

ToUpper(s) == [i \in 1..Len(s) |-> ToUpperChar(s[i])]

\* The characters of an identifier type name
IdTypeText(idType) ==
    CASE idType = IdTypePartlabel -> <<"p", "a", "r", "t", "l", "a", "b", "e", "l">>
      [] idType = IdTypeUuid -> <<"u", "u", "i", "d">>
      [] idType = IdTypePartuuid -> <<"p", "a", "r", "t", "u", "u", "i", "d">>
      [] OTHER -> <<"d", "e", "v", "p", "a", "t", "h">>

ErrInvalidIdTypeFormat(idType) == <<"invalid idType provided (%s)", idType>>

\* A result of "" with the error for an unsupported type
systemdFormatPartitionId_TypeAsIs(idType, id) ==
    CASE idType \in {IdTypePartlabel, IdTypeUuid, IdTypePartuuid} ->
            [text |-> IdTypeText(idType) \o <<"=">> \o id, err |-> Nil]
      [] OTHER -> [text |-> <<>>, err |-> ErrInvalidIdTypeFormat(idType)]

systemdFormatPartitionId(idType, id) ==
    CASE idType \in {IdTypePartlabel, IdTypeUuid, IdTypePartuuid} ->
            [text |-> ToUpper(IdTypeText(idType)) \o <<"=">> \o id, err |-> Nil]
      [] OTHER -> [text |-> <<>>, err |-> ErrInvalidIdTypeFormat(idType)]

LinuxPrefix ==
    <<"l", "i", "n", "u", "x", " ">>

RootDevicePrefix ==
    <<"s", "e", "t", " ", "r", "o", "o", "t", "d", "e", "v", "i", "c", "e", "=", "P",
      "A", "R", "T", "U", "U", "I", "D", "=">>

RootDeviceLine ==
    <<"s", "e", "t", " ", "r", "o", "o", "t", "d", "e", "v", "i", "c", "e", "=", "/",
      "d", "e", "v", "/", "m", "a", "p", "p", "e", "r", "/", "r", "o", "o", "t">>

ArgsRootHash ==
    <<"r", "d", ".", "s", "y", "s", "t", "e", "m", "d", ".", "v", "e", "r", "i", "t",
      "y", "=", "1", " ", "r", "o", "o", "t", "h", "a", "s", "h", "=">>

ArgsRootData ==
    <<" ", "s", "y", "s", "t", "e", "m", "d", ".", "v", "e", "r", "i", "t", "y", "_",
      "r", "o", "o", "t", "_", "d", "a", "t", "a", "=">>

ArgsRootHashDevice ==
    <<" ", "s", "y", "s", "t", "e", "m", "d", ".", "v", "e", "r", "i", "t", "y", "_",
      "r", "o", "o", "t", "_", "h", "a", "s", "h", "=">>

ArgsRootOptions ==
    <<" ", "s", "y", "s", "t", "e", "m", "d", ".", "v", "e", "r", "i", "t", "y", "_",
      "r", "o", "o", "t", "_", "o", "p", "t", "i", "o", "n", "s", "=", "p", "a", "n",
      "i", "c", "-", "o", "n", "-", "c", "o", "r", "r", "u", "p", "t", "i", "o", "n">>

\* fmt.Sprintf of the kernel arguments
NewArgs(rootHash, formattedDataPartition, formattedHashPartition) ==
    ArgsRootHash \o rootHash \o ArgsRootData \o formattedDataPartition
        \o ArgsRootHashDevice \o formattedHashPartition \o ArgsRootOptions

\* The body of the loop over the lines, with the prefix tested on the line as
\* read instead of the trimmed line
UpdatedLine_Untrimmed(line, newArgs) ==
    LET appended == IF HasPrefix(line, LinuxPrefix)
                    THEN line \o <<" ">> \o newArgs
                    ELSE line
    IN  IF HasPrefix(line, RootDevicePrefix) THEN RootDeviceLine ELSE appended

\* The body of the loop over the lines: two successive tests on the trimmed
\* line as read
UpdatedLine(line, newArgs) ==
    LET trimmedLine == TrimSpace(line)
        appended == IF HasPrefix(trimmedLine, LinuxPrefix)
                    THEN line \o <<" ">> \o newArgs
                    ELSE line
    IN  IF HasPrefix(trimmedLine, RootDevicePrefix) THEN RootDeviceLine ELSE appended

UpdatedLines(lines, newArgs) == [i \in 1..Len(lines) |-> UpdatedLine(lines[i], newArgs)]

\* The lines a grub.cfg may hold
GrubLines ==
    {<<"l", "i", "n", "u", "x", " ", "/", "v">>,
     <<"\t", "l", "i", "n", "u", "x", " ", "/", "v", " ", "r", "o", " ">>,
     <<"l", "i", "n", "u", "x">>,
     <<"l", "i", "n", "u", "x", "e", "f", "i", " ", "/", "v">>,
     <<" ", "l", "i", "n", "u", "x", " ">>,
     <<"s", "e", "t", " ", "r", "o", "o", "t", "d", "e", "v", "i", "c", "e", "=", "P", "A", "R", "T", "U", "U", "I", "D", "=", "X">>,
     <<" ", " ", "s", "e", "t", " ", "r", "o", "o", "t", "d", "e", "v", "i", "c", "e", "=", "P", "A", "R", "T", "U", "U", "I", "D", "=", "X", " ">>,
     <<"s", "e", "t", " ", "r", "o", "o", "t", "d", "e", "v", "i", "c", "e", "=", "U", "U", "I", "D", "=", "X">>,
     <<"m", "e", "n", "u", "e", "n", "t", "r", "y">>,
     <<>>}

GrubFiles == SeqsUpTo(GrubLines, MaxGrubLines)

GrubIdTypes == {IdTypePartlabel, IdTypeUuid, IdTypePartuuid, "devpath"}

GrubPartitionIds == {<<"a", "1">>}

RootHashes == {<<"9", "f">>}

GrubArgs ==
    [dataPartitionIdType : GrubIdTypes, dataPartitionId : GrubPartitionIds,
     hashPartitionIdType : GrubIdTypes, hashPartitionId : {<<"b", "2">>},
     rootHash : RootHashes]

MaxApplications == 2

\* What a call leaves behind: its arguments, the file before it, the file
\* operations it made and its result; application counts the calls made on
\* the file
GrubResult(args, before, io, result) ==
    [fn |-> "updateGrubConfig", args |-> args, before |-> before, io |-> io, err |-> result,
     application |-> IF grubCall.fn = "none" THEN 1 ELSE grubCall.application + 1]

\* One run of updateGrubConfig on the file grubCfg with arguments args.
\* readOk and writeOk are the outcomes of file.ReadLines and file.WriteLines;
\* a failed write leaves the old file or a truncated one.
updateGrubConfig(args, readOk, writeOk, truncated) ==
    LET formattedDataPartition ==
            systemdFormatPartitionId(args.dataPartitionIdType, args.dataPartitionId)
        formattedHashPartition ==
            systemdFormatPartitionId(args.hashPartitionIdType, args.hashPartitionId)
        newArgs == NewArgs(args.rootHash, formattedDataPartition.text,
                           formattedHashPartition.text)
    IN  IF formattedDataPartition.err # Nil
        THEN /\ grubCall' = GrubResult(args, grubCfg, <<>>, formattedDataPartition.err)
             /\ UNCHANGED grubCfg
        ELSE IF formattedHashPartition.err # Nil
        THEN /\ grubCall' = GrubResult(args, grubCfg, <<>>, formattedHashPartition.err)
             /\ UNCHANGED grubCfg
        ELSE IF ~readOk
        THEN /\ grubCall' = GrubResult(args, grubCfg, <<"ReadLines">>,
                                       <<"failed to read grub config: %v", "ReadLines">>)
             /\ UNCHANGED grubCfg
        ELSE IF ~writeOk
        THEN /\ grubCall' = GrubResult(args, grubCfg, <<"ReadLines", "WriteLines">>,
                                       <<"failed to write updated grub config: %v", "WriteLines">>)
             /\ grubCfg' = IF truncated THEN <<>> ELSE grubCfg
        ELSE /\ grubCall' = GrubResult(args, grubCfg, <<"ReadLines", "WriteLines">>, Nil)
             /\ grubCfg' = UpdatedLines(grubCfg, newArgs)

UpdateGrubConfig ==
    /\ grubCall.fn = "none"
    /\ \E args \in GrubArgs, readOk \in BOOLEAN, writeOk \in BOOLEAN, truncated \in BOOLEAN :
         updateGrubConfig(args, readOk, writeOk, truncated)
    /\ UNCHANGED <<pipeVars, call, verity, boot, nbd>>

\* updateGrubConfig once more, with the same arguments, on the file a
\* successful call has written
UpdateGrubConfigAgain ==
    /\ grubCall.fn = "updateGrubConfig"
    /\ grubCall.err = Nil
    /\ grubCall.application < MaxApplications
    /\ \E readOk \in BOOLEAN, writeOk \in BOOLEAN, truncated \in BOOLEAN :
         updateGrubConfig(grubCall.args, readOk, writeOk, truncated)
    /\ UNCHANGED <<pipeVars, call, verity, boot, nbd>>


(***************************************************************************)
(* customizeVerityImageHelper (src/unnamed/part_001).  Every external      *)
(* command either succeeds or fails; the text veritysetup prints is a      *)
(* sequence of one-character strings.                                      *)
(***************************************************************************)
MaxOutputPieces == 3

\* The devices /sys/class/block/nbd* lists, each with or without a pid file
NbdDeviceLists ==
    UNION {[1..n -> BOOLEAN] : n \in 0..2}

NbdName(n) == IF n = 1 THEN "/dev/nbd0" ELSE "/dev/nbd1"

RECURSIVE FirstFree(_, _)
FirstFree(hasPid, n) ==
    IF n > Len(hasPid) THEN 0
    ELSE IF ~hasPid[n] THEN n
    ELSE FirstFree(hasPid, n + 1)

\* The first device without a pid file
findFreeNBDDevice(hasPid) ==
    IF FirstFree(hasPid, 1) = 0
    THEN [device |-> "", err |-> <<"no free nbd devices available">>]
    ELSE [device |-> NbdName(FirstFree(hasPid, 1)), err |-> Nil]

\* config.OS.Verity of the runs modelled
VerityConfigs ==
    [DataPartition : [IdType : {IdTypeUuid, "devpath"}, Id : {"a"}],
     HashPartition : [IdType : {IdTypePartlabel}, Id : {"b"}]]

\* The partition tables of the image of the runs modelled
VerityDisks(nbdDevice) ==
    {d \in DiskPartitionLists(nbdDevice) :
        /\ \A n \in 1..Len(d) : d[n].Uuid = d[n].PartUuid /\ d[n].Uuid = d[n].PartLabel
        /\ \A n \in 1..Len(d) : \A k \in 1..Len(d) : d[n].Uuid = d[k].Uuid => n = k}

\* The characters of a partition id
IdText(id) == IF id = "a" THEN <<"a">> ELSE <<"b">>

\* Pieces of the text veritysetup format prints
VerityOutputPieces ==
    {<<"R", "o", "o", "t", " ", "h", "a", "s", "h", ":">>,
     <<" ">>,
     <<"9", "f">>,
     <<"R", "o", "o", "t", " ", "h", "a", "s", "h", ":", "\t", "A", "B", "\n">>,
     <<"R", "o", "o", "t", " ", "h", "a", "s", "h", ":", " ", " ", "c", "0", "x">>,
     <<"x">>}

RECURSIVE Flatten(_)
Flatten(pieces) == IF pieces = <<>> THEN <<>> ELSE Head(pieces) \o Flatten(Tail(pieces))

VerityOutputs == {Flatten(pieces) : pieces \in SeqsUpTo(VerityOutputPieces, MaxOutputPieces)}

\* The regular expression Root hash:\s+([0-9a-fA-F]+)
RootHashLabel == <<"R", "o", "o", "t", " ", "h", "a", "s", "h", ":">>

\* \s of the regular expression
IsRegexSpace(c) == c \in {" ", "\t", "\n", "\r"}

IsHexDigit(c) ==
    c \in {"0", "1", "2", "3", "4", "5", "6", "7", "8", "9",
           "a", "b", "c", "d", "e", "f", "A", "B", "C", "D", "E", "F"}

RECURSIVE SpaceRun(_, _)
SpaceRun(s, i) == IF i <= Len(s) /\ IsRegexSpace(s[i]) THEN 1 + SpaceRun(s, i + 1) ELSE 0

RECURSIVE HexRun(_, _)
HexRun(s, i) == IF i <= Len(s) /\ IsHexDigit(s[i]) THEN 1 + HexRun(s, i + 1) ELSE 0

\* The match that starts at position p: the whole match and group 1, or
\* nothing.  Both repetitions are greedy.
MatchAt(s, p) ==
    LET q == p + Len(RootHashLabel)
        w == SpaceRun(s, q)
        h == HexRun(s, q + w)
    IN  IF HasPrefix(SubSeq(s, p, Len(s)), RootHashLabel) /\ w >= 1 /\ h >= 1
        THEN <<SubSeq(s, p, q + w + h - 1), SubSeq(s, q + w, q + w + h - 1)>>
        ELSE <<>>

RECURSIVE FindFrom(_, _)
FindFrom(s, p) ==
    IF p > Len(s) THEN <<>>
    ELSE IF MatchAt(s, p) # <<>> THEN MatchAt(s, p)
    ELSE FindFrom(s, p + 1)

\* regexp.FindStringSubmatch: the leftmost match
FindStringSubmatch(s) == FindFrom(s, 1)

\* grub.cfg of the boot partition of the runs modelled
VerityGrubFiles ==
    {<<>>,
     <<<<"\t", "l", "i", "n", "u", "x", " ", "/", "v", " ", "r", "o", " ">>,
       <<" ", " ", "s", "e", "t", " ", "r", "o", "o", "t", "d", "e", "v", "i", "c", "e", "=", "P", "A", "R", "T", "U", "U", "I", "D", "=", "X", " ">>>>}

VerityIdle == [pc |-> "idle"]

\* The state at the call of customizeVerityImageHelper
VerityEntry(verityConfig) ==
    [pc |-> "findFreeNBDDevice", config |-> verityConfig, err |-> Nil, ret |-> Nil,
     nbdDevice |-> "", defers |-> <<>>, diskPartitions |-> <<>>,
     dataPartition |-> <<>>, hashPartition |-> <<>>, verityOutput |-> <<>>,
     rootHash |-> <<>>, trace |-> <<>>]

\* A return statement: the result is set, then the deferred calls run
VerityReturn(v, value) ==
    [v EXCEPT !.ret = value,
              !.pc = IF v.defers = <<>> THEN "returned" ELSE "deferred"]

\* err is assigned and returned
VerityFail(v, e) == VerityReturn([v EXCEPT !.err = e], e)

VerityRan(v, op, file, ok) == [v EXCEPT !.trace = Append(v.trace, Op(op, file, ok))]

FindFreeNBDDevice ==
    /\ verity.pc = "findFreeNBDDevice"
    /\ \E hasPid \in NbdDeviceLists :
         LET found == findFreeNBDDevice(hasPid) IN
         verity' = IF found.err # Nil
                   THEN VerityFail(verity, <<"failed to find a free nbd device: %v">> \o found.err)
                   ELSE [verity EXCEPT !.nbdDevice = found.device, !.pc = "connect"]
    /\ UNCHANGED <<pipeVars, call, grubVars, boot, nbd>>

\* qemu-nbd -c, and the deferred disconnect once it succeeded
ConnectNbd ==
    /\ verity.pc = "connect"
    /\ \E ok \in BOOLEAN :
         LET v == VerityRan(verity, "qemu-nbd -c", verity.nbdDevice, ok) IN
         verity' = IF ok
                   THEN [v EXCEPT !.defers = Append(v.defers, "qemu-nbd -d"),
                                  !.pc = "getDiskPartitions"]
                   ELSE VerityFail(v, <<"failed to connect nbd %s to image %s: %s", "qemu-nbd">>)
    /\ UNCHANGED <<pipeVars, call, grubVars, boot, nbd>>

GetDiskPartitions ==
    /\ verity.pc = "getDiskPartitions"
    /\ \/ \E d \in VerityDisks(verity.nbdDevice) :
            verity' = [VerityRan(verity, "GetDiskPartitions", verity.nbdDevice, TRUE)
                          EXCEPT !.diskPartitions = d, !.pc = "resolvePartitions"]
       \/ verity' = VerityFail(VerityRan(verity, "GetDiskPartitions", verity.nbdDevice, FALSE),
                               <<"GetDiskPartitions">>)
    /\ UNCHANGED <<pipeVars, call, grubVars, boot, nbd>>

\* The two calls of idToPartitionBlockDevicePath
ResolvePartitions ==
    /\ verity.pc = "resolvePartitions"
    /\ LET data == idToPartitionBlockDevicePath(verity.config.DataPartition.IdType,
                       verity.config.DataPartition.Id, verity.nbdDevice, verity.diskPartitions)
           hash == idToPartitionBlockDevicePath(verity.config.HashPartition.IdType,
                       verity.config.HashPartition.Id, verity.nbdDevice, verity.diskPartitions)
       IN  verity' = IF data.err # Nil THEN VerityFail(verity, data.err)
                     ELSE IF hash.err # Nil
                     THEN VerityFail([verity EXCEPT !.dataPartition = data.path], hash.err)
                     ELSE [verity EXCEPT !.dataPartition = data.path,
                                         !.hashPartition = hash.path, !.pc = "veritysetup"]
    /\ UNCHANGED <<pipeVars, call, grubVars, boot, nbd>>

VeritySetupFormat ==
    /\ verity.pc = "veritysetup"
    /\ \/ \E output \in VerityOutputs :
            verity' = [VerityRan(verity, "veritysetup format", verity.dataPartition, TRUE)
                          EXCEPT !.verityOutput = output, !.pc = "parseRootHash"]
       \/ verity' = VerityFail(VerityRan(verity, "veritysetup format", verity.dataPartition, FALSE),
                               Wrap("failed to calculate root hash:\n%w", <<"veritysetup">>))
    /\ UNCHANGED <<pipeVars, call, grubVars, boot, nbd>>

\* The parse with the test of the match left out: the root hash is empty
\* when nothing matched
ParseRootHash_NoMatchIgnored ==
    /\ verity.pc = "parseRootHash"
    /\ LET rootHashMatches == FindStringSubmatch(verity.verityOutput) IN
       verity' = [verity EXCEPT !.rootHash = IF Len(rootHashMatches) <= 1 THEN <<>>
                                             ELSE rootHashMatches[2],
                                !.pc = "findBootPartition"]
    /\ UNCHANGED <<pipeVars, call, grubVars, boot, nbd>>

\* rootHashMatches[1] of the code is the second element here: sequences
\* start at 1
ParseRootHash ==
    /\ verity.pc = "parseRootHash"
    /\ LET rootHashMatches == FindStringSubmatch(verity.verityOutput) IN
       verity' = IF Len(rootHashMatches) <= 1
                 THEN VerityFail(verity, <<"failed to parse root hash from veritysetup output">>)
                 ELSE [verity EXCEPT !.rootHash = rootHashMatches[2],
                                     !.pc = "findBootPartition"]
    /\ UNCHANGED <<pipeVars, call, grubVars, boot, nbd>>

\* findSystemBootPartition and findBootPartitionFromEsp
FindBootPartition ==
    /\ verity.pc = "findBootPartition"
    /\ \E op \in {"findSystemBootPartition", "findBootPartitionFromEsp"}, ok \in BOOLEAN :
         /\ op = "findSystemBootPartition" => ~ok
         /\ verity' = IF ok
                      THEN [VerityRan(VerityRan(verity, "findSystemBootPartition", "", TRUE),
                                      op, "", TRUE) EXCEPT !.pc = "mount"]
                      ELSE IF op = "findSystemBootPartition"
                      THEN VerityFail(VerityRan(verity, op, "", FALSE), <<op>>)
                      ELSE VerityFail(VerityRan(VerityRan(verity, "findSystemBootPartition", "", TRUE),
                                                op, "", FALSE), <<op>>)
    /\ UNCHANGED <<pipeVars, call, grubVars, boot, nbd>>

\* The mount with its Close deferred ahead of the disconnect, so that it
\* runs after it
MountBootPartition_ClosedLast ==
    /\ verity.pc = "mount"
    /\ \E ok \in BOOLEAN :
         LET v == VerityRan(verity, "safemount.NewMount", "", ok) IN
         verity' = IF ok
                   THEN [v EXCEPT !.defers = <<"bootPartitionMount.Close">> \o v.defers,
                                  !.pc = "updateGrubConfig"]
                   ELSE VerityFail(v, Wrap("failed to mount partition (%s):\n%w", <<"NewMount">>))
    /\ UNCHANGED <<pipeVars, call, grubVars, boot, nbd>>

\* safemount.NewMount, and the deferred Close once it succeeded
MountBootPartition ==
    /\ verity.pc = "mount"
    /\ \E ok \in BOOLEAN :
         LET v == VerityRan(verity, "safemount.NewMount", "", ok) IN
         verity' = IF ok
                   THEN [v EXCEPT !.defers = Append(v.defers, "bootPartitionMount.Close"),
                                  !.pc = "updateGrubConfig"]
                   ELSE VerityFail(v, Wrap("failed to mount partition (%s):\n%w", <<"NewMount">>))
    /\ UNCHANGED <<pipeVars, call, grubVars, boot, nbd>>

VerityUpdateGrubConfig ==
    /\ verity.pc = "updateGrubConfig"
    /\ \E readOk \in BOOLEAN, writeOk \in BOOLEAN, truncated \in BOOLEAN :
         updateGrubConfig([dataPartitionIdType |-> verity.config.DataPartition.IdType,
                           dataPartitionId |-> IdText(verity.config.DataPartition.Id),
                           hashPartitionIdType |-> verity.config.HashPartition.IdType,
                           hashPartitionId |-> IdText(verity.config.HashPartition.Id),
                           rootHash |-> verity.rootHash],
                          readOk, writeOk, truncated)
    /\ verity' = IF grubCall'.err # Nil
                 THEN VerityFail(verity, grubCall'.err)
                 ELSE [verity EXCEPT !.pc = "cleanClose"]
    /\ UNCHANGED <<pipeVars, call, boot, nbd>>

CleanCloseMount ==
    /\ verity.pc = "cleanClose"
    /\ \E ok \in BOOLEAN :
         LET v == VerityRan(verity, "bootPartitionMount.CleanClose", "", ok) IN
         verity' = IF ok
                   THEN VerityReturn([v EXCEPT !.err = Nil], Nil)
                   ELSE VerityFail(v, <<"CleanClose">>)
    /\ UNCHANGED <<pipeVars, call, grubVars, boot, nbd>>

\* defer bootPartitionMount.Close(): the last deferred call runs first
DeferredMountClose ==
    /\ verity.pc = "deferred"
    /\ verity.defers # <<>>
    /\ verity.defers[Len(verity.defers)] = "bootPartitionMount.Close"
    /\ LET v == VerityRan(verity, "bootPartitionMount.Close", "", TRUE) IN
       verity' = [v EXCEPT !.defers = SubSeq(v.defers, 1, Len(v.defers) - 1),
                           !.pc = IF Len(v.defers) = 1 THEN "returned" ELSE "deferred"]
    /\ UNCHANGED <<pipeVars, call, grubVars, boot, nbd>>

\* The deferred disconnect with a result the closure can assign to
DeferredDetachNbd_ResultAssigned ==
    /\ verity.pc = "deferred"
    /\ verity.defers # <<>>
    /\ verity.defers[Len(verity.defers)] = "qemu-nbd -d"
    /\ \E ok \in BOOLEAN :
         LET v == VerityRan(verity, "qemu-nbd -d", verity.nbdDevice, ok)
             e == IF ok THEN Nil ELSE <<"qemu-nbd -d">>
         IN
         verity' = [v EXCEPT !.err = e, !.ret = e,
                             !.defers = SubSeq(v.defers, 1, Len(v.defers) - 1),
                             !.pc = IF Len(v.defers) = 1 THEN "returned" ELSE "deferred"]
    /\ UNCHANGED <<pipeVars, call, grubVars, boot, nbd>>

\* The deferred disconnect.  The closure assigns the command's result to the
\* local err; the helper's result is unnamed and keeps the returned value.
DeferredDetachNbd ==
    /\ verity.pc = "deferred"
    /\ verity.defers # <<>>
    /\ verity.defers[Len(verity.defers)] = "qemu-nbd -d"
    /\ \E ok \in BOOLEAN :
         LET v == VerityRan(verity, "qemu-nbd -d", verity.nbdDevice, ok) IN
         verity' = [v EXCEPT !.err = IF ok THEN Nil ELSE <<"qemu-nbd -d">>,
                             !.defers = SubSeq(v.defers, 1, Len(v.defers) - 1),
                             !.pc = IF Len(v.defers) = 1 THEN "returned" ELSE "deferred"]
    /\ UNCHANGED <<pipeVars, call, grubVars, boot, nbd>>


(***************************************************************************)
(* validateConfig and the validators it calls (src/unnamed/part_001).      *)
(***************************************************************************)
MaxAdditionalFiles == 2

IsoFileSources == {"iso1.txt", "iso2.txt"}

OsFileSources == {"os1.txt", "os2.txt"}

\* What file.IsFile gives for a path: a regular file, something else (a
\* directory), or an error with isFile false (nothing at the path)
FileKinds == {"file", "dir", "missing"}

\* An AdditionalFilesMap in the order its range loop visits the sources
AdditionalFilesMaps(sources) ==
    {files \in SeqsUpTo(sources, MaxAdditionalFiles) :
        \A i \in 1..Len(files) : \A j \in 1..Len(files) : files[i] = files[j] => i = j}

ErrInvalidSourceFile(sourceFile) ==
    <<"invalid additionalFiles source file (%s):\n%w", sourceFile>>

ErrSourceNotAFile(sourceFile) ==
    <<"invalid additionalFiles source file (%s): not a file", sourceFile>>

RECURSIVE validateAdditionalFiles(_, _)
\* errors.Join of the errors of every source, in the order of the loop
validateAdditionalFiles(additionalFiles, kindOf) ==
    IF additionalFiles = <<>> THEN Nil
    ELSE LET sourceFile == Head(additionalFiles)
             statErr == IF kindOf[sourceFile] = "missing"
                        THEN ErrInvalidSourceFile(sourceFile) ELSE Nil
             notFile == IF kindOf[sourceFile] # "file"
                        THEN ErrSourceNotAFile(sourceFile) ELSE Nil
         IN  statErr \o notFile \o validateAdditionalFiles(Tail(additionalFiles), kindOf)

validateIsoConfig(iso, kindOf) ==
    IF ~iso.present THEN Nil
    ELSE validateAdditionalFiles(iso.AdditionalFiles, kindOf)

RECURSIVE validateScripts(_, _, _)
\* The loop over a list of scripts: the first invalid script ends it
validateScripts(scripts, i, msg) ==
    IF i > Len(scripts) THEN Nil
    ELSE LET e == validateScript(scripts[i].path, scripts[i].scriptStat) IN
         IF e # Nil THEN Wrap(msg, e) ELSE validateScripts(scripts, i + 1, msg)

\* config is not nil here
validateSystemConfig(os, kindOf, rpmsSources, useBaseImageRpmRepos, partitionsCustomized) ==
    LET packagesErr == validatePackageLists(os.Packages, rpmsSources, useBaseImageRpmRepos,
                                            partitionsCustomized).err
        filesErr == validateAdditionalFiles(os.AdditionalFiles, kindOf)
        postErr == validateScripts(os.PostInstallScripts, 1,
                                   "invalid PostInstallScripts item at index %d: %w")
        finalizeErr == validateScripts(os.FinalizeImageScripts, 1,
                                       "invalid FinalizeImageScripts item at index %d: %w")
    IN  IF packagesErr # Nil THEN packagesErr
        ELSE IF filesErr # Nil THEN filesErr
        ELSE IF postErr # Nil THEN postErr
        ELSE finalizeErr

\* The result of validateConfig, or the fault of validateSystemConfig reading
\* config.Packages of a nil config.OS
validateConfig(cfg, kindOf, rpmsSources, useBaseImageRpmRepos) ==
    LET partitionsCustomized == hasPartitionCustomizations(cfg)
        isoErr == validateIsoConfig(cfg.Iso, kindOf)
    IN  IF ~cfg.IsValid THEN [panicked |-> FALSE, err |-> <<"config.IsValid">>]
        ELSE IF isoErr # Nil THEN [panicked |-> FALSE, err |-> isoErr]
        ELSE IF ~cfg.OS.present THEN [panicked |-> TRUE, err |-> Nil]
        ELSE [panicked |-> FALSE,
              err |-> validateSystemConfig(cfg.OS, kindOf, rpmsSources, useBaseImageRpmRepos,
                                           partitionsCustomized)]

\* An install script outside the configuration directory
ScriptOutside ==
    [path |-> [abs |-> FALSE, parts |-> <<"..", "setup.sh">>],
     scriptStat |-> [ok |-> TRUE, mode |-> 493]]

ScriptInside ==
    [path |-> [abs |-> FALSE, parts |-> <<"scripts", "setup.sh">>],
     scriptStat |-> [ok |-> TRUE, mode |-> 493]]

NilIso == [present |-> FALSE, AdditionalFiles |-> <<>>]

NilValidatedOS ==
    [present |-> FALSE, Packages |-> EmptyPackages, AdditionalFiles |-> <<>>,
     PostInstallScripts |-> <<>>, FinalizeImageScripts |-> <<>>]

\* The configurations validateConfig is called with
ValidatedConfigs ==
    [IsValid : BOOLEAN,
     Storage : BOOLEAN,
     Iso : {NilIso} \cup [present : {TRUE}, AdditionalFiles : AdditionalFilesMaps(IsoFileSources)],
     OS : {NilValidatedOS} \cup
          [present : {TRUE},
           Packages : {EmptyPackages, [EmptyPackages EXCEPT !.Install = <<"p">>]},
           AdditionalFiles : AdditionalFilesMaps(OsFileSources),
           PostInstallScripts : {<<>>, <<ScriptInside, ScriptOutside>>},
           FinalizeImageScripts : {<<>>, <<ScriptOutside>>}]]

CallValidateConfig ==
    /\ call.fn = "none"
    /\ \E cfg \in ValidatedConfigs, kindOf \in [IsoFileSources \cup OsFileSources -> FileKinds],
          rpmsSources \in {<<>>, <<"rpms">>} :
         /\ \A f \in IsoFileSources \cup OsFileSources :
              (\A i \in 1..Len(cfg.Iso.AdditionalFiles) : cfg.Iso.AdditionalFiles[i] # f)
              /\ (\A i \in 1..Len(cfg.OS.AdditionalFiles) : cfg.OS.AdditionalFiles[i] # f)
              => kindOf[f] = "file"
         /\ call' = [fn |-> "validateConfig",
                     in |-> [config |-> cfg, kindOf |-> kindOf, rpmsSources |-> rpmsSources],
                     out |-> validateConfig(cfg, kindOf, rpmsSources, FALSE)]
    /\ UNCHANGED <<pipeVars, grubVars, verity, boot, nbd>>


(***************************************************************************)
(* One call of a helper function: its arguments and what it returns.       *)
(***************************************************************************)
ImageFormatStrings ==
    {"vhd", "vhdx", "raw", "qcow2", "iso", "", "vpc", "VHD", "vmdk", "qcow", "vhd "}

CallToQemuImageFormat ==
    /\ call.fn = "none"
    /\ \E imageFormat \in ImageFormatStrings :
         call' = [fn |-> "toQemuImageFormat", in |-> imageFormat,
                  out |-> toQemuImageFormat(imageFormat)]
    /\ UNCHANGED <<pipeVars, grubVars, verity, boot, nbd>>

MaxPackageLists == 1

PackagesInputs ==
    [Install : {<<>>, <<"p">>}, Remove : {<<>>, <<"p">>}, Update : {<<>>, <<"p">>},
     InstallLists : SeqsUpTo(PackageListFiles, MaxPackageLists),
     RemoveLists : SeqsUpTo(PackageListFiles, MaxPackageLists),
     UpdateLists : SeqsUpTo(PackageListFiles, MaxPackageLists),
     UpdateExistingPackages : BOOLEAN]

CallValidatePackageLists ==
    /\ call.fn = "none"
    /\ \E packages \in PackagesInputs, rpmsSources \in {<<>>, <<"rpms">>},
          useBaseImageRpmRepos \in BOOLEAN, partitionsCustomized \in BOOLEAN :
         call' = [fn |-> "validatePackageLists",
                  in |-> [packages |-> packages, rpmsSources |-> rpmsSources,
                          useBaseImageRpmRepos |-> useBaseImageRpmRepos,
                          partitionsCustomized |-> partitionsCustomized],
                  out |-> validatePackageLists(packages, rpmsSources, useBaseImageRpmRepos,
                                               partitionsCustomized)]
    /\ UNCHANGED <<pipeVars, grubVars, verity, boot, nbd>>

CallValidateScript ==
    /\ call.fn = "none"
    /\ \E path \in ScriptPaths, scriptStat \in StatResults :
         call' = [fn |-> "validateScript", in |-> [path |-> path, scriptStat |-> scriptStat],
                  out |-> validateScript(path, scriptStat)]
    /\ UNCHANGED <<pipeVars, grubVars, verity, boot, nbd>>

CallIdToPartitionBlockDevicePath ==
    /\ call.fn = "none"
    /\ \E idType \in IdTypes, id \in PartitionIds \cup {"c"},
          diskPartitions \in DiskPartitionLists("/dev/nbd0") :
         call' = [fn |-> "idToPartitionBlockDevicePath",
                  in |-> [idType |-> idType, id |-> id, diskPartitions |-> diskPartitions],
                  out |-> idToPartitionBlockDevicePath(idType, id, "/dev/nbd0", diskPartitions)]
    /\ UNCHANGED <<pipeVars, grubVars, verity, boot, nbd>>



(***************************************************************************)
(* enableVerityPartition (customizeverity.go).  File names and the lines   *)
(* of boot/mariner.cfg are sequences of one-character strings; a chroot is *)
(* the vmlinuz-* and initramfs-* names filepath.Glob finds under boot, in  *)
(* its sorted order, and the lines of boot/mariner.cfg.                    *)
(***************************************************************************)
KernelPrefix == <<"v", "m", "l", "i", "n", "u", "z", "-">>

MarinerInitrdPrefix == <<"m", "a", "r", "i", "n", "e", "r", "_", "i", "n", "i", "t", "r", "d", "=">>

MarinerCfgPath == <<"b", "o", "o", "t", "/", "m", "a", "r", "i", "n", "e", "r", ".", "c", "f", "g">>

TrimPrefix(s, prefix) ==
    IF HasPrefix(s, prefix) THEN SubSeq(s, Len(prefix) + 1, Len(s)) ELSE s

\* shell.ExecuteLiveWithErr(1, "dracut", "-f", "--kver", kernelVersion, "-a", module)
DracutCommand(kernelVersion, dracutModuleName) ==
    [cmd |-> "dracut -f --kver %s -a " \o dracutModuleName, arg |-> kernelVersion]

ErrNoKernels == <<"no kernels found in chroot environment">>

ErrMultipleKernels == <<"multiple kernels found in chroot environment, expected only one">>

\* The commands run and the result; dracutOk is the outcome of dracut
buildDracutModule_FirstKernel(dracutModuleName, kernelFiles, dracutOk) ==
    IF Len(kernelFiles) = 0 THEN [err |-> ErrNoKernels, ops |-> <<>>]
    ELSE LET kernelVersion == TrimPrefix(kernelFiles[1], KernelPrefix) IN
         [err |-> IF dracutOk THEN Nil
                  ELSE <<"failed to build dracut module - (%s):\n%w", dracutModuleName, "dracut">>,
          ops |-> <<DracutCommand(kernelVersion, dracutModuleName)>>]

buildDracutModule(dracutModuleName, kernelFiles, dracutOk) ==
    IF Len(kernelFiles) = 0 THEN [err |-> ErrNoKernels, ops |-> <<>>]
    ELSE IF Len(kernelFiles) > 1 THEN [err |-> ErrMultipleKernels, ops |-> <<>>]
    ELSE LET kernelVersion == TrimPrefix(kernelFiles[1], KernelPrefix) IN
         [err |-> IF dracutOk THEN Nil
                  ELSE <<"failed to build dracut module - (%s):\n%w", dracutModuleName, "dracut">>,
          ops |-> <<DracutCommand(kernelVersion, dracutModuleName)>>]

ErrInitramfsCount(n) == <<"expected one initramfs file, but found %d", n>>

\* The loop over the lines of mariner.cfg
MarinerLines_AnywhereInLine(lines, newInitramfs) ==
    [i \in 1..Len(lines) |->
        IF \E k \in 0..Len(lines[i]) :
              HasPrefix(SubSeq(lines[i], k + 1, Len(lines[i])), MarinerInitrdPrefix)
        THEN MarinerInitrdPrefix \o newInitramfs
        ELSE lines[i]]

MarinerLines(lines, newInitramfs) ==
    [i \in 1..Len(lines) |->
        IF HasPrefix(lines[i], MarinerInitrdPrefix)
        THEN MarinerInitrdPrefix \o newInitramfs
        ELSE lines[i]]

\* The file operations made, the result and the mariner.cfg left behind.
\* readOk and writeOk are the outcomes of file.ReadLines and file.WriteLines;
\* a failed write leaves the old file or a truncated one.
updateMarinerCfgWithInitramfs(chroot, readOk, writeOk, truncated) ==
    LET initramfsFiles == chroot.initramfs
        read == [cmd |-> "ReadLines", arg |-> MarinerCfgPath]
        write == [cmd |-> "WriteLines", arg |-> MarinerCfgPath]
    IN  IF Len(initramfsFiles) # 1
        THEN [err |-> ErrInitramfsCount(Len(initramfsFiles)), ops |-> <<>>,
              marinerCfg |-> chroot.marinerCfg]
        ELSE IF ~readOk
        THEN [err |-> <<"failed to read mariner.cfg: %w", "ReadLines">>, ops |-> <<read>>,
              marinerCfg |-> chroot.marinerCfg]
        ELSE IF ~writeOk
        THEN [err |-> <<"failed to write to mariner.cfg: %w", "WriteLines">>,
              ops |-> <<read, write>>,
              marinerCfg |-> IF truncated THEN <<>> ELSE chroot.marinerCfg]
        ELSE [err |-> Nil, ops |-> <<read, write>>,
              marinerCfg |-> MarinerLines(chroot.marinerCfg, initramfsFiles[1])]

\* chroot.initramfs is what boot holds once dracut has run
enableVerityPartition(chroot, dracutOk, readOk, writeOk, truncated) ==
    LET built == buildDracutModule("systemd-veritysetup", chroot.kernels, dracutOk)
        updated == updateMarinerCfgWithInitramfs(chroot, readOk, writeOk, truncated)
    IN  IF built.err # Nil
        THEN [err |-> built.err, ops |-> built.ops, marinerCfg |-> chroot.marinerCfg]
        ELSE [err |-> updated.err, ops |-> built.ops \o updated.ops,
              marinerCfg |-> updated.marinerCfg]

MaxMarinerLines == 2

KernelLists ==
    {<<>>, <<<<"v", "m", "l", "i", "n", "u", "z", "-", "5">>>>, <<<<"v", "m", "l", "i", "n", "u", "z", "-", "6", ".", "1">>>>, <<<<"v", "m", "l", "i", "n", "u", "z", "-", "5">>, <<"v", "m", "l", "i", "n", "u", "z", "-", "6", ".", "1">>>>}

InitramfsLists ==
    {<<>>, <<<<"i", "n", "i", "t", "r", "a", "m", "f", "s", "-", "5", ".", "i", "m", "g">>>>, <<<<"i", "n", "i", "t", "r", "a", "m", "f", "s", "-", "6", ".", "1", ".", "i", "m", "g">>>>,
     <<<<"i", "n", "i", "t", "r", "a", "m", "f", "s", "-", "5", ".", "i", "m", "g">>, <<"i", "n", "i", "t", "r", "a", "m", "f", "s", "-", "6", ".", "1", ".", "i", "m", "g">>>>}

MarinerCfgLines ==
    {<<"m", "a", "r", "i", "n", "e", "r", "_", "i", "n", "i", "t", "r", "d", "=", "i", "n", "i", "t", "r", "d", ".", "i", "m", "g", "-", "o", "l", "d">>,
     <<"m", "a", "r", "i", "n", "e", "r", "_", "i", "n", "i", "t", "r", "d", "=">>,
     <<" ", "m", "a", "r", "i", "n", "e", "r", "_", "i", "n", "i", "t", "r", "d", "=", "x">>,
     <<"m", "a", "r", "i", "n", "e", "r", "_", "i", "n", "i", "t", "r", "d">>,
     <<"m", "a", "r", "i", "n", "e", "r", "_", "l", "i", "n", "u", "x", "=", "v", "m", "l", "i", "n", "u", "z", "-", "5">>,
     <<>>}

Chroots ==
    [kernels : KernelLists, initramfs : InitramfsLists,
     marinerCfg : SeqsUpTo(MarinerCfgLines, MaxMarinerLines)]

CallEnableVerityPartition ==
    /\ call.fn = "none"
    /\ \E chroot \in Chroots, dracutOk \in BOOLEAN, readOk \in BOOLEAN, writeOk \in BOOLEAN,
          truncated \in BOOLEAN :
         call' = [fn |-> "enableVerityPartition", in |-> chroot,
                  env |-> [dracutOk |-> dracutOk, readOk |-> readOk, writeOk |-> writeOk],
                  out |-> enableVerityPartition(chroot, dracutOk, readOk, writeOk, truncated)]
    /\ UNCHANGED <<pipeVars, grubVars, verity, boot, nbd>>

CallUpdateMarinerCfgWithInitramfs ==
    /\ call.fn = "none"
    /\ \E chroot \in Chroots, readOk \in BOOLEAN, writeOk \in BOOLEAN, truncated \in BOOLEAN :
         call' = [fn |-> "updateMarinerCfgWithInitramfs", in |-> chroot,
                  env |-> [readOk |-> readOk, writeOk |-> writeOk],
                  out |-> updateMarinerCfgWithInitramfs(chroot, readOk, writeOk, truncated)]
    /\ UNCHANGED <<pipeVars, grubVars, verity, boot, nbd>>


(***************************************************************************)
(* Specifications.                                                         *)
(***************************************************************************)
NoCall == [fn |-> "none"]

CallsIdle == call = NoCall

GrubIdle == grubCfg = <<>> /\ grubCall = NoCall

PipelineIdle ==
    /\ pc = "idle"
    /\ params = [imageFile |-> [base |-> "", ext |-> ""]]
    /\ config = [Storage |-> FALSE, Iso |-> FALSE, OS |-> NilOS]
    /\ cp = NilCP
    /\ err = Nil
    /\ ret = Nil
    /\ deferred = FALSE
    /\ trace = <<>>

Init ==
    /\ PipelineInit /\ CallsIdle /\ GrubIdle /\ verity = VerityIdle /\ boot = [pc |-> "idle"]
    /\ nbd = NbdIdle

Next ==
    \/ ValidateConfig
    \/ InitCommonParameters
    \/ ConvertInputImageToWriteableFormat
    \/ CustomizePartitions
    \/ CustomizeImageHelper
    \/ ShrinkFilesystems
    \/ CustomizeVerity
    \/ CheckFileSystems
    \/ ExtractPartitions
    \/ ConvertWriteableFormatToOutputImage
    \/ DeferredCleanup

\* One run of CustomizeImage
Spec == Init /\ [][Next]_vars


(***************************************************************************)
(* Properties of CustomizeImage.                                           *)
(***************************************************************************)
Ran(op) == \E i \in 1..Len(trace) : trace[i].op = op

InChain(e, msg) == \E i \in 1..Len(e) : e[i] = msg

CleanupFailed ==
    \E i \in 1..Len(trace) : trace[i].op = "RemoveFileIfExists" /\ ~trace[i].ok

StageFailed ==
    \E i \in 1..Len(trace) : trace[i].op # "RemoveFileIfExists" /\ ~trace[i].ok

\* C1: when the working raw image cannot be deleted at the end of
\* CustomizeImage, the error returned contains the deletion failure, besides
\* the pipeline error when a stage had failed and on its own (not nil) when
\* every stage succeeded.
C1_CleanupFailureIsReturned ==
    (pc = "returned" /\ CleanupFailed) =>
        /\ InChain(ret, "failed to clean-up (%s): %w")
        /\ StageFailed => Len(ret) > 2

RawImageStarted ==
    Ran("qemu-img convert -O raw") \/ Ran("createWriteableImageFromSquashfs")

\* C2: whenever CustomizeImage returns after it started to produce the working
\* raw image, on success or on the failure of any stage, the failed input
\* conversion included, the last thing it did was to attempt the deletion of
\* the working raw image, at the path current at return.
C2_RawImageDeletedOnEveryReturn ==
    (pc = "returned" /\ RawImageStarted) =>
        /\ trace # <<>>
        /\ trace[Len(trace)].op = "RemoveFileIfExists"
        /\ trace[Len(trace)].file = cp.rawImageFile

CustomizeStages ==
    <<"customizePartitions", "customizeImageHelper", "shrinkFilesystemsHelper",
      "customizeVerityImageHelper", "checkFileSystems", "extractPartitionsHelper">>

OutputOps == {"qemu-img convert (output)", "createLiveOSIsoImage", "recreateLiveOSIsoImage"}

IsCustomizeStage(op) == \E k \in 1..Len(CustomizeStages) : CustomizeStages[k] = op

\* The place of an operation in the documented order; the output conversion
\* comes after every stage.
StageRank(op) ==
    IF IsCustomizeStage(op)
    THEN CHOOSE k \in 1..Len(CustomizeStages) : CustomizeStages[k] = op
    ELSE Len(CustomizeStages) + 1

StageApplies(op) ==
    CASE op = "shrinkFilesystemsHelper" -> params.enableShrinkFilesystems
      [] op = "customizeVerityImageHelper" -> config.OS.present /\ config.OS.Verity
      [] op = "extractPartitionsHelper" -> params.outputSplitPartitionsFormat # ""
      [] OTHER -> TRUE

Ordered(op) == IsCustomizeStage(op) \/ op \in OutputOps

\* C3: when customization is requested the stages of customizeOSContents run
\* in the order partitions, OS, shrink (if enabled), verity (if configured),
\* filesystem check, extraction (if a split format is given): a stage or the
\* output conversion runs only after every applicable earlier stage has run
\* and succeeded, so nothing runs after a failed stage and no output is written
\* from an image that failed the filesystem check; a run that returns nil has
\* run every applicable stage.
C3_StagesRunInOrder ==
    (config.Storage \/ config.OS.present) =>
        /\ \A i \in 1..Len(trace) :
             Ordered(trace[i].op) =>
                /\ IsCustomizeStage(trace[i].op) => StageApplies(trace[i].op)
                /\ \A j \in 1..Len(trace) :
                     (i < j /\ Ordered(trace[j].op)) =>
                         StageRank(trace[i].op) < StageRank(trace[j].op)
                /\ \A k \in 1..Len(CustomizeStages) :
                     (k < StageRank(trace[i].op) /\ StageApplies(CustomizeStages[k])) =>
                         \E j \in 1..(i - 1) : trace[j].op = CustomizeStages[k] /\ trace[j].ok
        /\ (pc = "returned" /\ ret = Nil) =>
             \A k \in 1..Len(CustomizeStages) :
                StageApplies(CustomizeStages[k]) =>
                    \E j \in 1..Len(trace) : trace[j].op = CustomizeStages[k] /\ trace[j].ok

\* A run in which all six stages and the output conversion ran.
C3_Witness ==
    /\ pc = "returned"
    /\ \A k \in 1..Len(CustomizeStages) : Ran(CustomizeStages[k])
    /\ Ran("qemu-img convert (output)")

\* C4: for an .iso input, output format iso and a configuration with neither
\* Storage nor OS, CustomizeImage runs to completion without calling
\* createWriteableImageFromSquashfs or any customizeOSContents stage, and the
\* output is produced by recreateLiveOSIsoImage.
C4_IsoWithoutCustomization ==
    (/\ Ext(params.imageFile) = ".iso"
     /\ params.outputImageFormat = ImageFormatIso
     /\ ~config.Storage
     /\ ~config.OS.present) =>
        /\ pc # "panicked"
        /\ ~Ran("createWriteableImageFromSquashfs")
        /\ \A k \in 1..Len(CustomizeStages) : ~Ran(CustomizeStages[k])
        /\ (pc = "returned" /\ ret = Nil) => Ran("recreateLiveOSIsoImage")


CallsInit ==
    /\ PipelineIdle /\ call = NoCall /\ GrubIdle /\ verity = VerityIdle /\ boot = [pc |-> "idle"]
    /\ nbd = NbdIdle

CallsNext ==
    \/ CallToQemuImageFormat
    \/ CallValidatePackageLists
    \/ CallValidateScript
    \/ CallIdToPartitionBlockDevicePath
    \/ CallValidateConfig
    \/ CallEnableVerityPartition
    \/ CallUpdateMarinerCfgWithInitramfs

\* One call of a helper function on arguments drawn from bounded sets
SpecCalls == CallsInit /\ [][CallsNext]_vars


(***************************************************************************)
(* Properties of the helper functions.                                     *)
(***************************************************************************)
\* C5: toQemuImageFormat returns "vpc" for "vhd", the input itself for "vhdx",
\* "raw" and "qcow2", and for every other string, "iso" and the empty string
\* included, the unsupported-format error and an empty format name.
C5_QemuFormatMapping ==
    call.fn = "toQemuImageFormat" =>
        /\ call.in = "vhd" => (call.out.format = "vpc" /\ call.out.err = Nil)
        /\ call.in \in {"vhdx", "raw", "qcow2"} =>
              (call.out.format = call.in /\ call.out.err = Nil)
        /\ call.in \notin {"vhd", "vhdx", "raw", "qcow2"} =>
              /\ call.out.format = ""
              /\ call.out.err # Nil
              /\ call.out.err[1] = "unsupported image format (supported: vhd, vhdx, raw, qcow2): %s"

C5_Witness ==
    /\ call.fn = "toQemuImageFormat"
    /\ call.in = "vhd"
    /\ call.out.format = "vpc"

\* The names a merge of list files and inline names yields when every list
\* file is read: pkgs.yaml contributes one name, the other files none.
MergedCount(packageLists, packages) ==
    Cardinality({i \in 1..Len(packageLists) : packageLists[i] = "pkgs.yaml"}) + Len(packages)

AllListsRead(packages) ==
    \A lists \in {packages.InstallLists, packages.RemoveLists, packages.UpdateLists} :
        \A i \in 1..Len(lists) : lists[i] # "missing.yaml"

\* The rule of the claim: no RPM source, and something that needs one.
SourcesMissing(in) ==
    /\ in.rpmsSources = <<>>
    /\ ~in.useBaseImageRpmRepos
    /\ \/ MergedCount(in.packages.InstallLists, in.packages.Install) > 0
       \/ MergedCount(in.packages.UpdateLists, in.packages.Update) > 0
       \/ in.packages.UpdateExistingPackages
       \/ in.partitionsCustomized

\* C6 as claimed: validatePackageLists rejects exactly when no RPM source is
\* available and the merged install list or the merged update list is
\* non-empty, UpdateExistingPackages is set or partitions were customized; in
\* every other case it accepts.
C6_RejectsExactlyWhenSourcesMissing ==
    call.fn = "validatePackageLists" =>
        ((call.out.err # Nil) <=> SourcesMissing(call.in))

\* C6 as amended: when every referenced package list file can be read,
\* validatePackageLists rejects exactly when no RPM source is available and
\* the merged install list or the merged update list is non-empty,
\* UpdateExistingPackages is set or partitions were customized (a
\* configuration that only removes packages is accepted); when a list file
\* cannot be read it rejects whatever the sources.
C6_RejectsWhenSourcesMissingOrListUnread ==
    call.fn = "validatePackageLists" =>
        IF AllListsRead(call.in.packages)
        THEN (call.out.err # Nil) <=> SourcesMissing(call.in)
        ELSE call.out.err # Nil

\* A configuration that only removes packages, with no source: accepted.
C6_Witness ==
    /\ call.fn = "validatePackageLists"
    /\ call.in.packages.Remove = <<"p">>
    /\ call.in.packages.RemoveLists = <<"pkgs.yaml">>
    /\ call.in.packages.Install = <<>>
    /\ call.in.packages.InstallLists = <<"empty.yaml">>
    /\ call.in.rpmsSources = <<>>
    /\ ~call.in.useBaseImageRpmRepos
    /\ call.out.err = Nil

\* A path is local when it is not empty, not absolute, and at no point of it
\* the ".." components outnumber the named components before them.
Climbs(parts, k) == Cardinality({i \in 1..k : parts[i] = ".."})

Descends(parts, k) == Cardinality({i \in 1..k : parts[i] \notin {".", ".."}})

PathIsLocal(path) ==
    /\ ~path.abs
    /\ path.parts # <<>>
    /\ \A k \in 1..Len(path.parts) : Climbs(path.parts, k) <= Descends(path.parts, k)

HasExecutableBit(mode) ==
    \/ (mode \div 64) % 2 = 1
    \/ (mode \div 8) % 2 = 1
    \/ mode % 2 = 1

\* C7: validateScript accepts a script if and only if its path is local to the
\* configuration directory, the file exists and at least one of the three
\* executable bits is set; containment is checked first, so a path that is
\* not local is rejected as not under the configuration directory whatever
\* the file's permissions and whether or not it exists.
C7_ScriptAcceptedIffLocalAndExecutable ==
    call.fn = "validateScript" =>
        /\ (call.out = Nil) <=>
              /\ PathIsLocal(call.in.path)
              /\ call.in.scriptStat.ok
              /\ HasExecutableBit(call.in.scriptStat.mode)
        /\ ~PathIsLocal(call.in.path) => call.out = ErrNotUnderConfigDir

\* scripts/../../setup.sh, executable, is rejected as not under the directory
C7_Witness ==
    /\ call.fn = "validateScript"
    /\ call.in.path = [abs |-> FALSE, parts |-> <<"scripts", "..", "..">>]
    /\ call.in.scriptStat = [ok |-> TRUE, mode |-> 493]
    /\ call.out = ErrNotUnderConfigDir

\* The field of a partition an identifier type names
IdField(partition, idType) ==
    CASE idType = "uuid" -> partition.Uuid
      [] idType = "partuuid" -> partition.PartUuid
      [] idType = "partlabel" -> partition.PartLabel

Matches(in) ==
    {n \in 1..Len(in.diskPartitions) : IdField(in.diskPartitions[n], in.idType) = in.id}

\* C9: for an identifier type uuid, partuuid or partlabel,
\* idToPartitionBlockDevicePath returns the path of the first partition in
\* list order whose field of that type equals the id, comparing only that
\* field; when no partition matches it returns no path and a not-found error
\* naming the type and the id.
C9_FirstMatchingPartition ==
    (call.fn = "idToPartitionBlockDevicePath" /\ call.in.idType \in {"uuid", "partuuid", "partlabel"}) =>
        IF Matches(call.in) # {}
        THEN /\ call.out.err = Nil
             /\ \E n \in Matches(call.in) :
                  /\ \A k \in Matches(call.in) : n <= k
                  /\ call.out.path = call.in.diskPartitions[n].Path
        ELSE /\ call.out.path = <<>>
             /\ call.out.err = <<"no partition found for %s: %s", call.in.idType, call.in.id>>

\* The second partition is the first whose Uuid is the id, while the first
\* partition carries the id in its other fields.
C9_Witness ==
    /\ call.fn = "idToPartitionBlockDevicePath"
    /\ call.in.idType = "uuid"
    /\ call.in.id = "a"
    /\ Len(call.in.diskPartitions) = 2
    /\ call.in.diskPartitions[1].Uuid = "b"
    /\ call.in.diskPartitions[1].PartUuid = "a"
    /\ call.in.diskPartitions[1].PartLabel = "a"
    /\ call.in.diskPartitions[2].Uuid = "a"
    /\ call.out.path = call.in.diskPartitions[2].Path

\* C10: with an identifier type other than uuid, partuuid and partlabel,
\* idToPartitionBlockDevicePath returns the invalid-identifier-type error, not
\* the not-found error, for every partition list, the empty list included.
C10_InvalidIdTypeRejected ==
    (call.fn = "idToPartitionBlockDevicePath" /\ call.in.idType \notin {"uuid", "partuuid", "partlabel"}) =>
        call.out.err = <<"invalid idType provided (%s)", call.in.idType>>


GrubInit ==
    /\ PipelineIdle
    /\ CallsIdle
    /\ grubCfg \in GrubFiles
    /\ grubCall = NoCall
    /\ verity = VerityIdle
    /\ boot = [pc |-> "idle"]
    /\ nbd = NbdIdle

GrubNext ==
    \/ UpdateGrubConfig
    \/ UpdateGrubConfigAgain

\* One run of updateGrubConfig on a grub.cfg drawn from a bounded set
SpecGrub == GrubInit /\ [][GrubNext]_vars


(***************************************************************************)
(* Properties of updateGrubConfig.                                         *)
(***************************************************************************)
\* The trimmed text of a line starts with a prefix: after leading white space
\* the line carries the prefix, and a character that is not white space at or
\* after the prefix's last place.
TrimmedStartsWith(line, prefix) ==
    \E k \in 0..Len(line) :
        /\ \A i \in 1..k : IsSpace(line[i])
        /\ k + Len(prefix) <= Len(line)
        /\ ~IsSpace(line[k + 1])
        /\ SubSeq(line, k + 1, k + Len(prefix)) = prefix
        /\ \E m \in (k + Len(prefix))..Len(line) : ~IsSpace(line[m])

\* TYPE=id with the type name in upper case
FormattedId(idType, id) ==
    (CASE idType = "partlabel" -> <<"P", "A", "R", "T", "L", "A", "B", "E", "L">>
       [] idType = "uuid" -> <<"U", "U", "I", "D">>
       [] idType = "partuuid" -> <<"P", "A", "R", "T", "U", "U", "I", "D">>) \o <<"=">> \o id

\* The argument string of the claim
VerityArgs(args) ==
    <<"r", "d", ".", "s", "y", "s", "t", "e", "m", "d", ".", "v", "e", "r", "i", "t",
      "y", "=", "1", " ", "r", "o", "o", "t", "h", "a", "s", "h", "=">>
    \o args.rootHash \o
    <<" ", "s", "y", "s", "t", "e", "m", "d", ".", "v", "e", "r", "i", "t", "y", "_",
      "r", "o", "o", "t", "_", "d", "a", "t", "a", "=">>
    \o FormattedId(args.dataPartitionIdType, args.dataPartitionId) \o
    <<" ", "s", "y", "s", "t", "e", "m", "d", ".", "v", "e", "r", "i", "t", "y", "_",
      "r", "o", "o", "t", "_", "h", "a", "s", "h", "=">>
    \o FormattedId(args.hashPartitionIdType, args.hashPartitionId) \o
    <<" ", "s", "y", "s", "t", "e", "m", "d", ".", "v", "e", "r", "i", "t", "y", "_",
      "r", "o", "o", "t", "_", "o", "p", "t", "i", "o", "n", "s", "=", "p", "a", "n",
      "i", "c", "-", "o", "n", "-", "c", "o", "r", "r", "u", "p", "t", "i", "o", "n">>

\* C8: a successful updateGrubConfig writes back a file with the same number
\* of lines in the same order, in which every line whose trimmed text starts
\* with "linux " is the original line followed by one space and the verity
\* arguments, every line whose trimmed text starts with
\* "set rootdevice=PARTUUID=" is exactly "set rootdevice=/dev/mapper/root",
\* and every other line is the original line.
C8_GrubLinesTransformed ==
    (grubCall.fn = "updateGrubConfig" /\ grubCall.err = Nil) =>
        /\ Len(grubCfg) = Len(grubCall.before)
        /\ \A i \in 1..Len(grubCall.before) :
             LET line == grubCall.before[i] IN
             IF TrimmedStartsWith(line, <<"l", "i", "n", "u", "x", " ">>)
             THEN grubCfg[i] = line \o <<" ">> \o VerityArgs(grubCall.args)
             ELSE IF TrimmedStartsWith(line, 
                    <<"s", "e", "t", " ", "r", "o", "o", "t", "d", "e", "v", "i", "c", "e", "=", "P", "A", "R", "T", "U", "U", "I", "D", "=">>)
             THEN grubCfg[i] = 
                    <<"s", "e", "t", " ", "r", "o", "o", "t", "d", "e", "v", "i", "c", "e", "=", "/", "d", "e", "v", "/", "m", "a", "p", "p", "e", "r", "/", "r", "o", "o", "t">>
             ELSE grubCfg[i] = line

\* An indented kernel line and an indented root device line, both rewritten
C8_Witness ==
    /\ grubCall.fn = "updateGrubConfig"
    /\ grubCall.err = Nil
    /\ Len(grubCall.before) = 2
    /\ grubCall.before[1] = <<"\t", "l", "i", "n", "u", "x", " ", "/", "v", " ", "r", "o", " ">>
    /\ grubCall.before[2] = 
         <<" ", " ", "s", "e", "t", " ", "r", "o", "o", "t", "d", "e", "v", "i", "c", "e", "=", "P", "A", "R", "T", "U", "U", "I", "D", "=", "X", " ">>
    /\ grubCfg[1] # grubCall.before[1]
    /\ grubCfg[2] # grubCall.before[2]


VerityInit ==
    /\ PipelineIdle
    /\ CallsIdle
    /\ grubCfg \in VerityGrubFiles
    /\ grubCall = NoCall
    /\ \E verityConfig \in VerityConfigs : verity = VerityEntry(verityConfig)
    /\ boot = [pc |-> "idle"]
    /\ nbd = NbdIdle

VerityNext ==
    \/ FindFreeNBDDevice
    \/ ConnectNbd
    \/ GetDiskPartitions
    \/ ResolvePartitions
    \/ VeritySetupFormat
    \/ ParseRootHash
    \/ FindBootPartition
    \/ MountBootPartition
    \/ VerityUpdateGrubConfig
    \/ CleanCloseMount
    \/ DeferredMountClose
    \/ DeferredDetachNbd

\* One run of customizeVerityImageHelper
SpecVerity == VerityInit /\ [][VerityNext]_vars


(***************************************************************************)
(* Properties of customizeVerityImageHelper.                               *)
(***************************************************************************)
VerityOps(op) == {i \in 1..Len(verity.trace) : verity.trace[i].op = op}

\* veritysetup has printed its text and the helper is past the parse
PastParse ==
    /\ \E i \in VerityOps("veritysetup format") : verity.trace[i].ok
    /\ verity.pc # "parseRootHash"

\* The places of s where the text Root hash: starts
RootHashLabels(s) ==
    {p \in 1..Len(s) :
        /\ p + 9 <= Len(s)
        /\ SubSeq(s, p, p + 9) = <<"R", "o", "o", "t", " ", "h", "a", "s", "h", ":">>}

\* The lengths n >= 1 for which the n characters of s from place q on are
\* all in the set chars
RunsFrom(s, q, chars) ==
    {n \in 1..(Len(s) - q + 1) : \A i \in q..(q + n - 1) : s[i] \in chars}

HexDigits ==
    {"0", "1", "2", "3", "4", "5", "6", "7", "8", "9",
     "a", "b", "c", "d", "e", "f", "A", "B", "C", "D", "E", "F"}

\* The matches of Root hash:\s+([0-9a-fA-F]+) in s: <<p, w, h>> is a match
\* that starts at p with w white-space characters after the colon and then
\* the h hexadecimal digits that follow them, no fewer
RootHashMatches(s) ==
    UNION {UNION {{<<p, w, h>> : h \in {n \in RunsFrom(s, p + 10 + w, HexDigits) :
                                           n + 1 \notin RunsFrom(s, p + 10 + w, HexDigits)}} :
                     w \in RunsFrom(s, p + 10, {" ", "\t", "\n", "\r"})} :
              p \in RootHashLabels(s)}

\* C11: when the text veritysetup printed holds no match of
\* Root hash:\s+([0-9a-fA-F]+), customizeVerityImageHelper returns the parse
\* error, never mounts the boot partition and never reads or writes grub.cfg;
\* when it holds a match, the root hash handed to updateGrubConfig is group 1
\* of the first match.
C11_RootHashParsedOrFatal ==
    PastParse =>
        LET s == verity.verityOutput
            matches == RootHashMatches(s)
        IN
        IF matches = {}
        THEN /\ verity.ret = <<"failed to parse root hash from veritysetup output">>
             /\ VerityOps("safemount.NewMount") = {}
             /\ grubCall = NoCall
             /\ grubCfg \in VerityGrubFiles
        ELSE grubCall # NoCall =>
                \E m \in matches :
                   /\ \A n \in matches : m[1] <= n[1]
                   /\ grubCall.args.rootHash =
                         SubSeq(s, m[1] + 10 + m[2], m[1] + 10 + m[2] + m[3] - 1)

\* Two matches in the text: the hash of the first reached updateGrubConfig
C11_Witness ==
    /\ verity.pc = "returned"
    /\ Cardinality({m[1] : m \in RootHashMatches(verity.verityOutput)}) = 2
    /\ grubCall # NoCall
    /\ grubCall.args.rootHash = <<"c", "0">>

\* The text has no match and the helper returned the parse error
C11_WitnessNoMatch ==
    /\ verity.pc = "returned"
    /\ verity.verityOutput = <<"R", "o", "o", "t", " ", "h", "a", "s", "h", ":", " ", "x">>
    /\ verity.ret = <<"failed to parse root hash from veritysetup output">>


Attached == \E i \in VerityOps("qemu-nbd -c") : verity.trace[i].ok

\* C12: once the image is attached to an NBD node, customizeVerityImageHelper
\* attempts the detach of that node exactly once on every return, on success
\* and on every error, and never when the attach failed or was not reached;
\* the deferred calls leave the value set by the return statement as it is,
\* whatever the detach gives.
C12_DetachOnceResultKept ==
    /\ [](verity.pc = "returned" =>
            /\ Cardinality(VerityOps("qemu-nbd -d")) = IF Attached THEN 1 ELSE 0
            /\ \A i \in VerityOps("qemu-nbd -d") : verity.trace[i].file = verity.nbdDevice)
    /\ [][verity.pc = "deferred" => verity'.ret = verity.ret]_vars

\* Every step succeeded, the detach failed, and the helper returned nil
C12_Witness ==
    /\ verity.pc = "returned"
    /\ \E i \in VerityOps("bootPartitionMount.CleanClose") : verity.trace[i].ok
    /\ \E i \in VerityOps("qemu-nbd -d") : ~verity.trace[i].ok
    /\ verity.ret = Nil


\* The sources of a section that are not regular files
InvalidSources(additionalFiles, kindOf) ==
    {additionalFiles[i] : i \in {j \in 1..Len(additionalFiles) : kindOf[additionalFiles[j]] # "file"}}

\* A configuration that passes config.IsValid, has an OS section and passes
\* validatePackageLists: no package to install and RPM sources given
ValidButForFiles(in) ==
    /\ in.config.IsValid
    /\ in.config.OS.present
    /\ in.config.OS.Packages = EmptyPackages
    /\ in.rpmsSources # <<>>

\* C13: validateConfig reports the additional-file violations of
\* Iso.AdditionalFiles and OS.AdditionalFiles together: for a configuration,
\* otherwise valid, with invalid sources in both sections the error returned
\* names every invalid source of both sections, and no additional-file error
\* is returned only when every source of both sections is a regular file.
C13_AdditionalFilesAggregated ==
    (call.fn = "validateConfig" /\ ValidButForFiles(call.in)) =>
        LET isoInvalid == InvalidSources(call.in.config.Iso.AdditionalFiles, call.in.kindOf)
            osInvalid == InvalidSources(call.in.config.OS.AdditionalFiles, call.in.kindOf)
        IN  /\ (isoInvalid # {} /\ osInvalid # {}) =>
                  \A f \in isoInvalid \cup osInvalid : InChain(call.out.err, f)
            /\ (\A f \in IsoFileSources \cup OsFileSources : ~InChain(call.out.err, f)) =>
                  (isoInvalid = {} /\ osInvalid = {})

\* Within one section every invalid source is named: validateAdditionalFiles
\* does not stop at the first.
C13_SectionAggregated ==
    (call.fn = "validateConfig" /\ ValidButForFiles(call.in)) =>
        LET isoInvalid == InvalidSources(call.in.config.Iso.AdditionalFiles, call.in.kindOf)
            osInvalid == InvalidSources(call.in.config.OS.AdditionalFiles, call.in.kindOf)
        IN  /\ \A f \in isoInvalid : InChain(call.out.err, f)
            /\ isoInvalid = {} => \A f \in osInvalid : InChain(call.out.err, f)


(***************************************************************************)
(* The boot-time live-root assembler, dmsquash-live-root.sh                *)
(* (src/unnamed/part_000).  boot holds the shell variables of the script   *)
(* under their own names, the position of the script and what it has done  *)
(* so far.  An unset or empty shell variable is "" (<<>> for text that is  *)
(* inspected character by character, 0 for sz).  What the script probes    *)
(* (block devices, files, directories, command results) is chosen when it  *)
(* is probed.                                                              *)
(***************************************************************************)
MaxOverlaySize == 65536

\* [ -z "$overlay_size" ] && overlay_size=32768
DefaultOverlaySize == 32768

\* rd.live.overlay.size= on the kernel command line: absent, given with an
\* empty value, or given with a number of MiB
OverlaySizeArgs ==
    {[given |-> "absent", value |-> 0], [given |-> "empty", value |-> 0]}
        \cup [given : {"value"}, value : {1, MaxOverlaySize}]

\* rd.live.overlay on the kernel command line
OverlaySpecs ==
    {<<>>,
     <<"a", "u", "t", "o">>,
     <<"n", "o", "n", "e">>,
     <<"d">>,
     <<"d", ":">>,
     <<"d", ":", "/", "p">>,
     <<"d", ":", "a", "u", "t", "o">>,
     <<"d", ":", "x", ":", "/", "p">>,
     <<":", "/", "p">>}

\* The kernel command line and the environment, with every flag at its
\* default
DefaultCmdline ==
    [livedev |-> "/dev/sr0", rd_live_dir |-> <<>>, rd_live_ram |-> FALSE,
     rd_live_overlay_reset |-> FALSE, rd_live_overlay_readonly |-> FALSE,
     rd_live_overlay |-> <<>>, rd_writable_fsimg |-> FALSE,
     rd_live_overlay_size |-> [given |-> "absent", value |-> 0],
     rd_live_overlay_thin |-> FALSE, rd_live_overlay_overlayfs |-> FALSE,
     rd_live_check |-> FALSE, DRACUT_SYSTEMD |-> FALSE]

\* Every combination of the mode flags with an overlay spec that is empty,
\* "none" or a device and a path
ModeCmdlines ==
    {[DefaultCmdline EXCEPT !.rd_live_overlay = f.overlay,
                            !.rd_live_ram = f.ram,
                            !.rd_live_overlay_reset = f.reset,
                            !.rd_live_overlay_readonly = f.readonly,
                            !.rd_writable_fsimg = f.fsimg,
                            !.rd_live_overlay_thin = f.thin,
                            !.rd_live_overlay_overlayfs = f.overlayfs,
                            !.DRACUT_SYSTEMD = f.systemd] :
        f \in [overlay : {<<>>, <<"n", "o", "n", "e">>, <<"d", ":", "/", "p">>}, ram : BOOLEAN, reset : BOOLEAN,
               readonly : BOOLEAN, fsimg : BOOLEAN, thin : BOOLEAN, overlayfs : BOOLEAN,
               systemd : BOOLEAN]}

\* Every combination of the overlay spec, the overlay size and the live
\* directory
OverlayCmdlines ==
    {[DefaultCmdline EXCEPT !.rd_live_overlay = f.overlay,
                            !.rd_live_overlay_size = f.size,
                            !.rd_live_dir = f.dir] :
        f \in [overlay : OverlaySpecs, size : OverlaySizeArgs, dir : {<<>>, <<"L">>}]}

\* Every combination of the media check flag, the service manager and the
\* live device argument
CheckCmdlines ==
    {[DefaultCmdline EXCEPT !.rd_live_check = f.check,
                            !.DRACUT_SYSTEMD = f.systemd,
                            !.livedev = f.livedev] :
        f \in [check : BOOLEAN, systemd : BOOLEAN, livedev : {"", "/dev/sr0"}]}

\* What the live device is: a block device or a regular file, the
\* filesystem type blkid reports for it, and its label and UUID (empty when
\* blkid fails)
LiveDevices ==
    [block : {TRUE}, TYPE : {"iso9660", "udf", "ext4", "squashfs", "ntfs"},
     LABEL : {<<"M">>}, UUID : {<<"7">>}]
        \cup [block : {FALSE}, TYPE : {"squashfs", "auto", "ext4"}, LABEL : {<<"M">>}, UUID : {<<"7">>}]

LabelledDevices ==
    [block : {TRUE}, TYPE : {"iso9660"}, LABEL : {<<>>, <<"M">>}, UUID : {<<>>, <<"7">>}]

BootInputs ==
    (ModeCmdlines \X {d \in LiveDevices : d.block /\ d.TYPE \in {"iso9660", "squashfs"}})
        \cup (OverlayCmdlines \X LabelledDevices)
        \cup (CheckCmdlines \X LiveDevices)

BootIdle == [pc |-> "idle"]

\* The script at its first line
BootEntry(cmdline, device) ==
    [pc |-> "parse", cmdline |-> cmdline, device |-> device,
     \* shell variables
     livedev |-> "", live_dir |-> <<>>, live_ram |-> "", reset_overlay |-> "",
     readonly_overlay |-> "", overlay |-> <<>>, writable_fsimg |-> "", overlay_size |-> 0,
     thin_snapshot |-> "", overlayfs |-> "", fs |-> "", check |-> "", fstype |-> "",
     SQUASHED |-> "", FSIMG |-> "", SQUASHED_LOOPDEV |-> "", BASE_LOOPDEV |-> "", sz |-> 0,
     setup |-> "", opt |-> "", l |-> <<>>, u |-> <<>>, pathspec |-> <<>>, devspec |-> <<>>,
     OVERLAY_LOOPDEV |-> "", RO_OVERLAY_LOOPDEV |-> "", over |-> "", base |-> "", m |-> <<>>,
     reloadsysrootmountunit |-> <<>>,
     \* what the script has done
     ops |-> <<>>,         \* commands run, in order
     dm |-> <<>>,          \* device-mapper tables created, in order
     files |-> {},         \* files, directories and links created
     overlaySize |-> [blocks |-> 0, bs |-> 0],   \* apparent size of /overlay: blocks of bs bytes
     loops |-> {},         \* loop devices attached
     layout |-> [LiveOS |-> FALSE, rootfs |-> FALSE, ext3fs |-> FALSE, proc |-> FALSE],
                           \* what the mounted squashfs holds
     images |-> [rootfs |-> FALSE, ext3fs |-> FALSE],
                           \* the uncompressed images the live device holds
     found |-> [kind |-> "none", oltype |-> "", dirs |-> FALSE],
                           \* what the probe of the persistent overlay found
     driver |-> "",        \* the result of modprobe overlay
     verification |-> [ran |-> FALSE, status |-> 0],
                           \* the exit status of the checksum verification
     markers |-> {},       \* changes applied to the root mount unit
     rootMount |-> "",     \* what the final mount instruction mounts
     mounted |-> {},       \* what the script has mounted and not unmounted
     hook |-> "",          \* the mount instruction written to the mount hook
     died |-> "",          \* the message of die
     status |-> 0]         \* exit status

BootRan(b, op) == [b EXCEPT !.ops = Append(b.ops, op)]

\* die "message"; exit 1
Die(b, message) == [b EXCEPT !.pc = "exited", !.died = message, !.status = 1]

Flag(set) == IF set THEN "yes" ELSE ""

\* Lines 19-40: the live device argument and the kernel command line
ParseOptions ==
    /\ boot.pc = "parse"
    /\ LET c == boot.cmdline IN
       boot' =
         IF c.livedev = ""
         THEN [boot EXCEPT !.pc = "exited", !.status = 1]
         ELSE [boot EXCEPT
                 !.pc = "mediaCheck",
                 !.livedev = c.livedev,
                 !.live_dir = IF c.rd_live_dir = <<>> THEN <<"L", "i", "v", "e", "O", "S">> ELSE c.rd_live_dir,
                 !.live_ram = Flag(c.rd_live_ram),
                 !.reset_overlay = Flag(c.rd_live_overlay_reset),
                 !.readonly_overlay = IF c.rd_live_overlay_readonly THEN "--readonly" ELSE "",
                 !.overlay = c.rd_live_overlay,
                 !.writable_fsimg = Flag(c.rd_writable_fsimg),
                 !.overlay_size = IF c.rd_live_overlay_size.given = "value"
                                  THEN c.rd_live_overlay_size.value ELSE DefaultOverlaySize,
                 !.thin_snapshot = Flag(c.rd_live_overlay_thin),
                 !.overlayfs = Flag(c.rd_live_overlay_overlayfs)]
    /\ UNCHANGED <<pipeVars, call, grubVars, verity, nbd>>

\* The exit statuses of checkisomd5 (and of systemctl start of its unit)
CheckStatuses == {0, 1, 2}

\* Lines 42-61: the check of the medium.  getarg rd.live.check -d check
\* succeeds when the command line carries the parameter; when it fails
\* check is emptied.
MediaCheck ==
    /\ boot.pc = "mediaCheck"
    /\ LET fs == IF boot.device.block THEN boot.device.TYPE ELSE ""
           marked == IF fs = "iso9660" \/ fs = "udf" THEN "yes" ELSE ""
           check == IF boot.cmdline.rd_live_check THEN marked ELSE ""
           b == [boot EXCEPT !.fs = fs, !.check = check]
       IN  IF check # ""
           THEN \E status \in CheckStatuses :
                  LET ran == [BootRan(b, IF boot.cmdline.DRACUT_SYSTEMD
                                         THEN "systemctl start checkisomd5@"
                                         ELSE "checkisomd5 --verbose")
                                 EXCEPT !.verification = [ran |-> TRUE, status |-> status]]
                  IN  boot' = IF status = 1
                              THEN Die(ran, "CD check failed!")
                              ELSE [ran EXCEPT !.pc = "linkLiveDev"]
           ELSE boot' = [b EXCEPT !.pc = "linkLiveDev"]
    /\ UNCHANGED <<pipeVars, call, grubVars, verity, nbd>>

\* Lines 63-77
LinkLiveDev ==
    /\ boot.pc = "linkLiveDev"
    /\ boot' = [BootRan(BootRan(boot, "ln -s livedev /run/initramfs/livedev"), "modprobe squashfs")
                   EXCEPT !.files = @ \cup {"/run/initramfs/livedev"},
                          !.pc = "mountLiveDev"]
    /\ UNCHANGED <<pipeVars, call, grubVars, verity, nbd>>

\* Lines 79-120: the backing of the live image
MountLiveDev ==
    /\ boot.pc = "mountLiveDev"
    /\ LET b == [boot EXCEPT !.files = @ \cup {"/run/initramfs/live"}, !.pc = "findPayload"]
           TYPE == boot.device.TYPE
       IN  IF ~boot.device.block
           THEN boot' = IF TYPE = "squashfs"
                        THEN [b EXCEPT !.fstype = TYPE, !.SQUASHED = boot.livedev]
                        ELSE IF TYPE = "auto"
                        THEN Die([b EXCEPT !.fstype = TYPE],
                                 "cannot mount live image (unknown filesystem type)")
                        ELSE [b EXCEPT !.fstype = TYPE, !.FSIMG = boot.livedev]
           ELSE IF TYPE = "squashfs"
           THEN boot' = [b EXCEPT !.SQUASHED = boot.livedev]
           ELSE IF TYPE # "ntfs"
           THEN \E ok \in BOOLEAN :
                  boot' = IF ok
                          THEN [BootRan(b, "mount livedev /run/initramfs/live")
                                   EXCEPT !.mounted = @ \cup {"/run/initramfs/live"}]
                          ELSE Die(BootRan(b, "mount livedev /run/initramfs/live"),
                                   "Failed to mount block device of live image")
           ELSE \E ntfs3g \in BOOLEAN :
                  boot' = IF ntfs3g
                          THEN [BootRan(b, "ntfs-3g livedev /run/initramfs/live")
                                   EXCEPT !.mounted = @ \cup {"/run/initramfs/live"}]
                          ELSE Die(b, "Failed to mount block device of live image: Missing NTFS support")
    /\ UNCHANGED <<pipeVars, call, grubVars, verity, nbd>>

\* losetup: attach file to a free loop device
Losetup(b, dev, file, readonly) ==
    [b EXCEPT !.loops = @ \cup {[dev |-> dev, file |-> file, readonly |-> readonly]}]

\* dmsetup create name with one table line; the target comes to exist (ok)
\* when the line has a length and no device of it is empty
Dmsetup(b, name, target, sectors, args, readonly) ==
    [b EXCEPT !.dm = Append(@, [name |-> name, target |-> target, sz |-> sectors,
                                args |-> args, readonly |-> readonly,
                                ok |-> sectors > 0 /\ \A i \in 1..Len(args) : args[i] # ""])]

\* What the squashfs payload holds at its top level
SquashLayouts ==
    {t \in [LiveOS : BOOLEAN, rootfs : BOOLEAN, ext3fs : BOOLEAN, proc : BOOLEAN] :
        (t.rootfs \/ t.ext3fs) => t.LiveOS}

\* Which uncompressed images the mounted live device holds
LiveImages == [rootfs : BOOLEAN, ext3fs : BOOLEAN]

XorOverlayfs == <<":>/xor_overlayfs;">>

\* Lines 386-403: the inspection of the mounted squashfs
InspectSquashfs(b, layout) ==
    IF layout.LiveOS
    THEN IF layout.rootfs
         THEN [b EXCEPT !.FSIMG = "/run/initramfs/squashfs/LiveOS/rootfs.img"]
         ELSE IF layout.ext3fs
         THEN [b EXCEPT !.FSIMG = "/run/initramfs/squashfs/LiveOS/ext3fs.img"]
         ELSE b
    ELSE IF layout.proc
    THEN [b EXCEPT !.FSIMG = b.SQUASHED,
                   !.reloadsysrootmountunit =
                       IF b.overlayfs = "" /\ b.cmdline.DRACUT_SYSTEMD THEN XorOverlayfs ELSE @,
                   !.overlayfs = "required"]
    ELSE Die(b, "Failed to find a root filesystem in $SQUASHED.")

\* The branch of line 427 on FSIMG
AfterPayload(b) ==
    IF b.pc = "exited" THEN b
    ELSE [b EXCEPT !.pc = IF b.FSIMG # "" THEN "prepareBase" ELSE "reloadUnits"]

\* Lines 352-420: the squashfs payload or the uncompressed image
FindPayload ==
    /\ boot.pc = "findPayload"
    /\ \E embedded \in BOOLEAN, layout \in SquashLayouts, images \in LiveImages :
         LET live == "/run/initramfs/live" \in boot.mounted
             found == IF embedded /\ live
                      THEN [boot EXCEPT !.SQUASHED = "/run/initramfs/live/${live_dir}/${squash_image}"]
                      ELSE boot
         IN  /\ ~live => (~embedded /\ images = [rootfs |-> FALSE, ext3fs |-> FALSE])
             /\ found.SQUASHED = "" => layout = [LiveOS |-> FALSE, rootfs |-> FALSE,
                                                  ext3fs |-> FALSE, proc |-> FALSE]
             /\ found.SQUASHED # "" => images = [rootfs |-> FALSE, ext3fs |-> FALSE]
             /\ IF found.SQUASHED # ""
                THEN LET staged == IF found.live_ram # ""
                                   THEN [BootRan(found, "dd if=$SQUASHED of=/run/initramfs/squashed.img")
                                            EXCEPT !.SQUASHED = "/run/initramfs/squashed.img"]
                                   ELSE found
                         looped == Losetup([staged EXCEPT !.SQUASHED_LOOPDEV = "/dev/loop0"],
                                           "/dev/loop0", staged.SQUASHED, TRUE)
                         squashfs == [BootRan(looped, "mount -t squashfs /run/initramfs/squashfs")
                                         EXCEPT !.mounted = @ \cup {"/run/initramfs/squashfs"},
                                                !.layout = layout]
                     IN  boot' = AfterPayload(InspectSquashfs(squashfs, layout))
                ELSE LET probed == [found EXCEPT !.images = images]
                         image == IF images.rootfs
                                  THEN [probed EXCEPT !.FSIMG = "/run/initramfs/live/${live_dir}/rootfs.img"]
                                  ELSE IF images.ext3fs
                                  THEN [probed EXCEPT !.FSIMG = "/run/initramfs/live/${live_dir}/ext3fs.img"]
                                  ELSE probed
                         staged == IF image.live_ram # ""
                                   THEN [BootRan(image, "dd if=$FSIMG of=/run/initramfs/rootfs.img")
                                            EXCEPT !.FSIMG = "/run/initramfs/rootfs.img",
                                                   !.files = IF image.FSIMG # ""
                                                             THEN @ \cup {"/run/initramfs/rootfs.img"}
                                                             ELSE @]
                                   ELSE image
                     IN  boot' = AfterPayload(staged)
    /\ UNCHANGED <<pipeVars, call, grubVars, verity, nbd>>

\* blockdev --getsz of the base loop device, in 512-byte sectors
BaseSectors == 4096

\* [ "$overlay" = none -o "$overlay" = None -o "$overlay" = NONE ]
OverlayIsNone(overlay) == overlay \in {<<"n", "o", "n", "e">>, <<"N", "o", "n", "e">>, <<"N", "O", "N", "E">>}

\* Lines 427-499: the base loop device and the access mode
PrepareBase ==
    /\ boot.pc = "prepareBase"
    /\ LET writable == IF boot.writable_fsimg # ""
                       THEN [BootRan(boot, IF boot.SQUASHED # ""
                                           THEN "cp $FSIMG /run/initramfs/fsimg/rootfs.img"
                                           ELSE "unpack_archive $FSIMG /run/initramfs/fsimg/")
                                EXCEPT !.FSIMG = "/run/initramfs/fsimg/rootfs.img"]
                       ELSE boot
           direct == \/ (boot.SQUASHED = "" /\ boot.live_ram # "" /\ boot.overlayfs = "")
                     \/ boot.writable_fsimg # ""
                     \/ OverlayIsNone(boot.overlay)
           moded == IF direct
                    THEN IF boot.readonly_overlay = ""
                         THEN [writable EXCEPT !.opt = "", !.setup = "rw"]
                         ELSE [writable EXCEPT !.opt = "-r", !.setup = "yes"]
                    ELSE [writable EXCEPT !.opt = "-r"]
           \* the image is there unless it is the copy dd made of nothing
           exists == boot.FSIMG # "/run/initramfs/rootfs.img"
                         \/ "/run/initramfs/rootfs.img" \in boot.files
           based == IF moded.FSIMG = moded.SQUASHED
                    THEN [moded EXCEPT !.BASE_LOOPDEV = moded.SQUASHED_LOOPDEV]
                    ELSE IF exists
                    THEN [Losetup(moded, "/dev/loop1", moded.FSIMG, moded.opt # "")
                             EXCEPT !.BASE_LOOPDEV = "/dev/loop1", !.sz = BaseSectors]
                    ELSE [BootRan(moded, "losetup -f --show $FSIMG")
                             EXCEPT !.BASE_LOOPDEV = "", !.sz = 0]
       IN  boot' = [based EXCEPT !.pc = IF based.setup = "rw" THEN "linearRw" ELSE "overlayPathspec"]
    /\ UNCHANGED <<pipeVars, call, grubVars, verity, nbd>>

\* Lines 501-503: direct read-write mode
LinearRw ==
    /\ boot.pc = "linearRw"
    /\ boot' = [Dmsetup(boot, "live-rw", "linear", boot.sz, <<boot.BASE_LOOPDEV>>, FALSE)
                   EXCEPT !.pc = "reloadUnits"]
    /\ UNCHANGED <<pipeVars, call, grubVars, verity, nbd>>

\* strstr "$overlay" ":"
HasColon(s) == \E i \in 1..Len(s) : s[i] = ":"

\* ${overlay##*:}, the text after the last colon
AfterLastColon_FirstColon(s) ==
    IF ~HasColon(s) THEN s
    ELSE LET i == CHOOSE k \in 1..Len(s) : s[k] = ":" /\ \A j \in 1..(k - 1) : s[j] # ":"
         IN  SubSeq(s, i + 1, Len(s))

AfterLastColon(s) ==
    IF ~HasColon(s) THEN s
    ELSE LET i == CHOOSE k \in 1..Len(s) : s[k] = ":" /\ \A j \in (k + 1)..Len(s) : s[j] # ":"
         IN  SubSeq(s, i + 1, Len(s))

\* ${overlay%%:*}, the text before the first colon
BeforeFirstColon(s) ==
    IF ~HasColon(s) THEN s
    ELSE LET i == CHOOSE k \in 1..Len(s) : s[k] = ":" /\ \A j \in 1..(k - 1) : s[j] # ":"
         IN  SubSeq(s, 1, i - 1)

\* "/${live_dir}/overlay-$l-$u"
DefaultPathspec(live_dir, l, u) ==
    <<"/">> \o live_dir \o <<"/", "o", "v", "e", "r", "l", "a", "y", "-">> \o l \o <<"-">> \o u

\* Lines 132-149: where a persistent overlay is looked for
OverlayPathspec ==
    /\ boot.pc = "overlayPathspec"
    /\ LET l == boot.device.LABEL
           u == boot.device.UUID
       IN
         LET given == IF boot.overlay = <<>>
                      THEN DefaultPathspec(boot.live_dir, l, u)
                      ELSE IF HasColon(boot.overlay)
                      THEN AfterLastColon(boot.overlay)
                      ELSE boot.pathspec
             pathspec == IF given = <<>> \/ given = <<"a", "u", "t", "o">>
                         THEN DefaultPathspec(boot.live_dir, l, u)
                         ELSE given
         IN  boot' = [boot EXCEPT !.l = l, !.u = u, !.pathspec = pathspec,
                                  !.devspec = BeforeFirstColon(boot.overlay),
                                  !.pc = "probeOverlay"]
    /\ UNCHANGED <<pipeVars, call, grubVars, verity, nbd>>

\* What is found at the pathspec on the overlay device: nothing usable, a
\* writable regular file (with the filesystem type det_img_fs reports for it
\* and whether it holds the overlayfs and ovlwork directories), or a
\* directory with an ovlwork directory beside it
PersistentOverlays ==
    {[kind |-> "none", oltype |-> "", dirs |-> FALSE],
     [kind |-> "dir", oltype |-> "", dirs |-> TRUE]}
        \cup [kind : {"file"}, oltype : {"", "DM_snapshot_cow"}, dirs : {FALSE}]
        \cup [kind : {"file"}, oltype : {"ext4"}, dirs : BOOLEAN]

\* Lines 178-181, 193-196, 204-207: a persistent OverlayFS store was found
OverlayfsRequired(b, opt) ==
    [b EXCEPT !.files = @ \cup {"/run/overlayfs" \o opt, "/run/ovlwork" \o opt},
              !.reloadsysrootmountunit =
                  IF b.overlayfs = "" /\ b.cmdline.DRACUT_SYSTEMD THEN XorOverlayfs ELSE @,
              !.overlayfs = "required",
              !.setup = "yes"]

\* Lines 175-179: a raw overlay file cannot hold an OverlayFS store
UseRawOverlay_RequestKept(b) ==
    [b EXCEPT !.reloadsysrootmountunit =
                  IF b.overlayfs # "" /\ b.cmdline.DRACUT_SYSTEMD THEN XorOverlayfs ELSE @,
              !.setup = "yes"]

UseRawOverlay(b) ==
    [b EXCEPT !.reloadsysrootmountunit =
                  IF b.overlayfs # "" /\ b.cmdline.DRACUT_SYSTEMD THEN XorOverlayfs ELSE @,
              !.overlayfs = "",
              !.setup = "yes"]

\* Lines 151-209: the persistent overlay
ProbePersistentOverlay ==
    /\ boot.pc = "probeOverlay"
    /\ IF boot.setup = "" /\ boot.devspec # <<>> /\ boot.pathspec # <<>> /\ boot.overlay # <<>>
       THEN \E found \in PersistentOverlays :
              LET opt == IF boot.readonly_overlay # "" THEN "-r" ELSE ""
                  b == [BootRan(boot, "mount $devspec /run/initramfs/overlayfs")
                           EXCEPT !.opt = opt, !.files = @ \cup {"/run/initramfs/overlayfs"},
                                  !.found = found, !.pc = "loadOverlayDriver"]
                  looped == [Losetup(b, "/dev/loop2", "/run/initramfs/overlayfs$pathspec", opt # "")
                                EXCEPT !.OVERLAY_LOOPDEV = "/dev/loop2", !.over = "/dev/loop2"]
                  reset == IF boot.reset_overlay # ""
                           THEN BootRan(looped, "dd if=/dev/zero of=$OVERLAY_LOOPDEV")
                           ELSE looped
              IN  boot' =
                    IF found.kind = "file"
                    THEN IF found.oltype = "" \/ found.oltype = "DM_snapshot_cow"
                         THEN UseRawOverlay(reset)
                         ELSE LET mounted == [BootRan(looped, "mount $OVERLAY_LOOPDEV /run/initramfs/overlayfs")
                                                 EXCEPT !.mounted = @ \cup {"/run/initramfs/overlayfs"}]
                              IN  IF found.dirs THEN OverlayfsRequired(mounted, opt) ELSE mounted
                    ELSE IF found.kind = "dir"
                    THEN OverlayfsRequired([b EXCEPT !.mounted = @ \cup {"/run/initramfs/overlayfs"}], opt)
                    ELSE b
       ELSE boot' = [boot EXCEPT !.pc = "loadOverlayDriver"]
    /\ UNCHANGED <<pipeVars, call, grubVars, verity, nbd>>

OverlayfsUnavailable == "OverlayFS is not available; using temporary Device-mapper overlay."

\* Lines 219-222: OverlayFS was requested and is not available
GiveUpOverlayfs_RequestKept(b) ==
    [BootRan(b, "info " \o OverlayfsUnavailable)
        EXCEPT !.reloadsysrootmountunit = IF b.cmdline.DRACUT_SYSTEMD THEN XorOverlayfs ELSE @,
               !.m = <<OverlayfsUnavailable>>,
               !.setup = ""]

GiveUpOverlayfs(b) ==
    [BootRan(b, "info " \o OverlayfsUnavailable)
        EXCEPT !.reloadsysrootmountunit = IF b.cmdline.DRACUT_SYSTEMD THEN XorOverlayfs ELSE @,
               !.m = <<OverlayfsUnavailable>>,
               !.overlayfs = "",
               !.setup = ""]

\* Lines 213-224: the overlay kernel driver.  Without the driver a required
\* OverlayFS is fatal and a requested one is given up.
LoadOverlayDriver_RequiredGivenUp ==
    /\ boot.pc = "loadOverlayDriver"
    /\ IF boot.overlayfs # ""
       THEN \E loaded \in BOOLEAN :
              LET b == [BootRan(boot, "modprobe overlay")
                           EXCEPT !.driver = IF loaded THEN "loaded" ELSE "failed",
                                  !.pc = "temporaryOverlay"]
              IN  boot' =
                    IF loaded THEN b
                    ELSE GiveUpOverlayfs(b)
       ELSE boot' = [boot EXCEPT !.pc = "temporaryOverlay"]
    /\ UNCHANGED <<pipeVars, call, grubVars, verity, nbd>>

LoadOverlayDriver ==
    /\ boot.pc = "loadOverlayDriver"
    /\ IF boot.overlayfs # ""
       THEN \E loaded \in BOOLEAN :
              LET b == [BootRan(boot, "modprobe overlay")
                           EXCEPT !.driver = IF loaded THEN "loaded" ELSE "failed",
                                  !.pc = "temporaryOverlay"]
              IN  boot' =
                    IF loaded THEN b
                    ELSE IF boot.overlayfs = "required"
                    THEN Die(b, "OverlayFS is required but not available.")
                    ELSE GiveUpOverlayfs(b)
       ELSE boot' = [boot EXCEPT !.pc = "temporaryOverlay"]
    /\ UNCHANGED <<pipeVars, call, grubVars, verity, nbd>>

\* bs= of the dd that allocates /overlay, in bytes
DdBlockSize == 1024

\* Lines 273-282: dd if=/dev/null of=/overlay bs=1024 count=1
\* seek=$((overlay_size * 1024)) leaves a file of seek blocks and nothing
\* written; the file is then attached to a loop device
AllocateOverlay_SeekInMiB(b) ==
    LET seek == b.overlay_size
        file == [BootRan(b, "dd if=/dev/null of=/overlay")
                    EXCEPT !.files = @ \cup {"/overlay"},
                           !.overlaySize = [blocks |-> seek, bs |-> DdBlockSize]]
        looped == Losetup(file, "/dev/loop3", "/overlay", FALSE)
    IN  IF b.setup # "" /\ b.readonly_overlay # ""
        THEN [looped EXCEPT !.RO_OVERLAY_LOOPDEV = "/dev/loop3", !.over = "/dev/loop3"]
        ELSE [looped EXCEPT !.OVERLAY_LOOPDEV = "/dev/loop3", !.over = "/dev/loop3"]

AllocateOverlay(b) ==
    LET seek == b.overlay_size * 1024
        file == [BootRan(b, "dd if=/dev/null of=/overlay")
                    EXCEPT !.files = @ \cup {"/overlay"},
                           !.overlaySize = [blocks |-> seek, bs |-> DdBlockSize]]
        looped == Losetup(file, "/dev/loop3", "/overlay", FALSE)
    IN  IF b.setup # "" /\ b.readonly_overlay # ""
        THEN [looped EXCEPT !.RO_OVERLAY_LOOPDEV = "/dev/loop3", !.over = "/dev/loop3"]
        ELSE [looped EXCEPT !.OVERLAY_LOOPDEV = "/dev/loop3", !.over = "/dev/loop3"]

\* Lines 232-256: the notice of a temporary overlay
TemporaryNotice(b) ==
    IF b.setup # ""
    THEN BootRan(b, "warn Using temporary overlay.")
    ELSE IF b.devspec # <<>> /\ b.pathspec # <<>>
    THEN LET first == IF b.m = <<>>
                      THEN <<"   Unable to find a persistent overlay; using a temporary one.">>
                      ELSE b.m
         IN  BootRan([b EXCEPT !.m = first \o <<"      All root filesystem changes will be lost on shutdown.",
                                                  "         Press [Enter] to continue.">>],
                     "prompt")
    ELSE b

\* Lines 260-270: the directories of a temporary OverlayFS
TemporaryOverlayfs(b) ==
    LET dirs == [BootRan(b, "mkdir -p /run/overlayfs /run/ovlwork")
                    EXCEPT !.files = @ \cup {"/run/overlayfs", "/run/ovlwork"}]
    IN  IF b.readonly_overlay # "" /\ "/run/overlayfs-r" \notin b.files
        THEN [BootRan(dirs, "info No persistent overlay found.")
                 EXCEPT !.readonly_overlay = "",
                        !.reloadsysrootmountunit =
                            IF b.cmdline.DRACUT_SYSTEMD THEN Append(@, ":>/xor_readonly;") ELSE @]
        ELSE dirs

\* Lines 228-287: the temporary overlay
TemporaryOverlay_OnlyWithoutSetup ==
    /\ boot.pc = "temporaryOverlay"
    /\ boot' =
         IF boot.setup = ""
         THEN LET noticed == [TemporaryNotice(boot) EXCEPT !.pc = "blockLayer"]
              IN  IF boot.overlayfs # ""
                  THEN TemporaryOverlayfs(noticed)
                  ELSE AllocateOverlay(noticed)
         ELSE [boot EXCEPT !.pc = "blockLayer"]
    /\ UNCHANGED <<pipeVars, call, grubVars, verity, nbd>>

TemporaryOverlay ==
    /\ boot.pc = "temporaryOverlay"
    /\ boot' =
         IF boot.setup = "" \/ boot.readonly_overlay # ""
         THEN LET noticed == [TemporaryNotice(boot) EXCEPT !.pc = "blockLayer"]
              IN  IF boot.overlayfs # ""
                  THEN TemporaryOverlayfs(noticed)
                  ELSE AllocateOverlay(noticed)
         ELSE [boot EXCEPT !.pc = "blockLayer"]
    /\ UNCHANGED <<pipeVars, call, grubVars, verity, nbd>>

\* Lines 308-309: 512-byte sectors of the thin pool's data device; the
\* script computes overlay_size * 1024 * 1024 / 512
ThinDataSectors(overlay_size) == overlay_size * ((1024 * 1024) \div 512)

\* Lines 291-341: the device-mapper targets
BlockLayer ==
    /\ boot.pc = "blockLayer"
    /\ LET ro == IF boot.overlayfs = ""
                 THEN IF boot.readonly_overlay # "" /\ boot.OVERLAY_LOOPDEV # ""
                      THEN [Dmsetup(boot, "live-ro", "snapshot", boot.sz,
                                    <<boot.BASE_LOOPDEV, boot.OVERLAY_LOOPDEV, "P", "8">>, TRUE)
                               EXCEPT !.base = "/dev/mapper/live-ro"]
                      ELSE [boot EXCEPT !.base = boot.BASE_LOOPDEV]
                 ELSE boot
           thin_data_sz == ThinDataSectors(boot.overlay_size)
           rw == IF boot.thin_snapshot # ""
                 THEN LET files == [BootRan(ro, "modprobe dm_thin_pool")
                                       EXCEPT !.files = @ \cup {"/run/initramfs/thin-overlay/meta",
                                                                "/run/initramfs/thin-overlay/data"}]
                          meta == Losetup(files, "/dev/loop4", "/run/initramfs/thin-overlay/meta", FALSE)
                          data == Losetup(meta, "/dev/loop5", "/run/initramfs/thin-overlay/data", FALSE)
                          pool == Dmsetup(data, "live-overlay-pool", "thin-pool", thin_data_sz,
                                          <<"/dev/loop4", "/dev/loop5", "1024", "1024">>, FALSE)
                      IN  Dmsetup(pool, "live-rw", "thin", ro.sz,
                                  <<"/dev/mapper/live-overlay-pool", "0", ro.base>>, FALSE)
                 ELSE IF boot.overlayfs = ""
                 THEN Dmsetup(ro, "live-rw", "snapshot", ro.sz, <<ro.base, ro.over, "PO", "8">>, FALSE)
                 ELSE ro
           based == IF boot.overlayfs = ""
                    THEN Dmsetup(rw, "live-base", "linear", rw.sz, <<rw.BASE_LOOPDEV, "0">>, TRUE)
                    ELSE rw
       IN  boot' = [based EXCEPT !.files = @ \cup {"/dev/live-base"}, !.pc = "reloadUnits"]
    /\ UNCHANGED <<pipeVars, call, grubVars, verity, nbd>>

\* Lines 514-517: the accumulated changes to the root mount unit
ReloadUnits ==
    /\ boot.pc = "reloadUnits"
    /\ boot' =
         IF boot.reloadsysrootmountunit # <<>>
         THEN [BootRan(boot, "systemctl daemon-reload")
                  EXCEPT !.markers = {boot.reloadsysrootmountunit[i] :
                                          i \in 1..Len(boot.reloadsysrootmountunit)},
                         !.pc = "finalMount"]
         ELSE [boot EXCEPT !.pc = "finalMount"]
    /\ UNCHANGED <<pipeVars, call, grubVars, verity, nbd>>

OverlayHook == "mount -t overlay LiveOS_rootfs -o,lowerdir=/run/rootfsbase,upperdir=/run/overlayfs,workdir=/run/ovlwork $NEWROOT"
OverlayHookReadonly == "mount -t overlay LiveOS_rootfs -o,lowerdir=/run/overlayfs-r:/run/rootfsbase,upperdir=/run/overlayfs,workdir=/run/ovlwork $NEWROOT"
LiveRwHook == "mount  /dev/mapper/live-rw $NEWROOT"

\* Lines 521-560: the final mount instruction (the command line carries no
\* rootflags)
FinalMount ==
    /\ boot.pc = "finalMount"
    /\ boot' =
         IF boot.overlayfs # ""
         THEN LET reset == IF boot.reset_overlay # "" /\ "/run/overlayfs" \in boot.files
                           THEN BootRan(boot, "rm -r /run/overlayfs contents")
                           ELSE boot
                  ovlfs == IF boot.readonly_overlay # "" /\ "/run/overlayfs-r" \in boot.files
                           THEN OverlayHookReadonly ELSE OverlayHook
              IN  [BootRan(reset, "mount -r $FSIMG /run/rootfsbase")
                      EXCEPT !.files = @ \cup {"/run/rootfsbase"},
                             !.mounted = @ \cup {"/run/rootfsbase"},
                             !.rootMount = "overlay",
                             !.hook = IF boot.cmdline.DRACUT_SYSTEMD THEN "" ELSE ovlfs,
                             !.pc = "finish"]
         ELSE [boot EXCEPT !.rootMount = "live-rw",
                           !.hook = IF boot.cmdline.DRACUT_SYSTEMD THEN "" ELSE LiveRwHook,
                           !.pc = "finish"]
    /\ UNCHANGED <<pipeVars, call, grubVars, verity, nbd>>

\* Lines 565-577
Finish ==
    /\ boot.pc = "finish"
    /\ boot' = [BootRan(boot, "ln -s null /dev/root")
                   EXCEPT !.mounted = IF boot.SQUASHED # "" THEN @ \ {"/run/initramfs/squashfs"} ELSE @,
                          !.files = @ \cup {"/dev/root"},
                          !.pc = "exited",
                          !.status = 0]
    /\ UNCHANGED <<pipeVars, call, grubVars, verity, nbd>>

BootInit ==
    /\ \E input \in BootInputs : boot = BootEntry(input[1], input[2])
    /\ PipelineIdle
    /\ CallsIdle
    /\ GrubIdle
    /\ verity = VerityIdle
    /\ nbd = NbdIdle

BootNext ==
    \/ ParseOptions
    \/ MediaCheck
    \/ LinkLiveDev
    \/ MountLiveDev
    \/ FindPayload
    \/ PrepareBase
    \/ LinearRw
    \/ OverlayPathspec
    \/ ProbePersistentOverlay
    \/ LoadOverlayDriver
    \/ TemporaryOverlay
    \/ BlockLayer
    \/ ReloadUnits
    \/ FinalMount
    \/ Finish

SpecBoot == BootInit /\ [][BootNext]_vars

(***************************************************************************)
(* Properties of the boot-time live-root assembler                         *)
(***************************************************************************)
BootRunning == boot.pc # "idle"

OpticalMedium == boot.device.block /\ boot.device.TYPE \in {"iso9660", "udf"}

LiveDevMounted == "/run/initramfs/live" \in boot.mounted

\* C17: when the live device is a block device of type iso9660 or udf and
\* the command line carries no rd.live.check parameter, the checksum
\* verification has been run by the time the live device is mounted.
C17_UnflaggedOpticalMediumVerified ==
    (BootRunning /\ OpticalMedium /\ ~boot.cmdline.rd_live_check /\ LiveDevMounted)
        => boot.verification.ran

\* C18: whenever the checksum verification returned a non-zero status the
\* script has died with "CD check failed!" and has neither linked nor
\* mounted the live device.
C18_NonZeroVerificationFatal ==
    (BootRunning /\ boot.verification.ran /\ boot.verification.status # 0)
        => /\ boot.died = "CD check failed!"
           /\ "/run/initramfs/livedev" \notin boot.files
           /\ ~LiveDevMounted

BootDid(op) == BootRunning /\ \E i \in 1..Len(boot.ops) : boot.ops[i] = op

SquashfsInspected == BootDid("mount -t squashfs /run/initramfs/squashfs")

\* When the squashfs holds both images, rootfs.img is the one selected
C19_RootfsPreferred ==
    (SquashfsInspected /\ boot.pc = "prepareBase" /\ boot.layout.rootfs /\ boot.layout.ext3fs)
        => boot.FSIMG = "/run/initramfs/squashfs/LiveOS/rootfs.img"

\* C19: when the mounted squashfs holds neither LiveOS/rootfs.img nor
\* LiveOS/ext3fs.img nor a proc directory, the script has died with "Failed
\* to find a root filesystem" and never writes the final mount instruction
\* with no filesystem image selected; when both images exist rootfs.img is
\* selected.
C19_NoRootFilesystemFatal ==
    /\ (SquashfsInspected /\ ~boot.layout.rootfs /\ ~boot.layout.ext3fs /\ ~boot.layout.proc)
           => /\ boot.died = "Failed to find a root filesystem in $SQUASHED."
              /\ boot.rootMount = ""
    /\ C19_RootfsPreferred

\* The positions of the colons of the overlay spec
OverlayColons == {i \in 1..Len(boot.overlay) : boot.overlay[i] = ":"}

\* /<liveDir>/overlay-<label>-<uuid> for the live directory of the command
\* line and the label and UUID of the live device
ExpectedDefaultPathspec ==
    <<"/">> \o (IF boot.cmdline.rd_live_dir = <<>> THEN <<"L", "i", "v", "e", "O", "S">> ELSE boot.cmdline.rd_live_dir)
        \o <<"/", "o", "v", "e", "r", "l", "a", "y", "-">> \o boot.device.LABEL \o <<"-">> \o boot.device.UUID

\* C20: once do_live_overlay has computed pathspec and devspec, the pathspec
\* is /<liveDir>/overlay-<label>-<uuid> when the overlay spec is empty, has
\* no colon, or gives a path that is empty or "auto"; otherwise it is the
\* text after the last colon; with a colon the devspec is the text before
\* the first colon.
C20_PathspecAndDevspec ==
    (BootRunning /\ boot.pc = "probeOverlay") =>
        IF OverlayColons = {}
        THEN boot.pathspec = ExpectedDefaultPathspec
        ELSE LET first == CHOOSE i \in OverlayColons : \A j \in OverlayColons : i <= j
                 last == CHOOSE i \in OverlayColons : \A j \in OverlayColons : j <= i
                 path == SubSeq(boot.overlay, last + 1, Len(boot.overlay))
             IN  /\ boot.pathspec = IF path = <<>> \/ path = <<"a", "u", "t", "o">>
                                    THEN ExpectedDefaultPathspec ELSE path
                 /\ boot.devspec = SubSeq(boot.overlay, 1, first - 1)

\* An overlay spec with two colons: the path is what follows the second
C20_Witness ==
    /\ BootRunning
    /\ boot.pc = "probeOverlay"
    /\ Cardinality(OverlayColons) = 2
    /\ boot.pathspec = <<"/", "p">>
    /\ boot.devspec = <<"d">>

\* A spec without a colon and a path "auto" both give the default
C20_WitnessDefault ==
    /\ BootRunning
    /\ boot.pc = "probeOverlay"
    /\ boot.overlay \in {<<"d">>, <<"d", ":", "a", "u", "t", "o">>}
    /\ boot.pathspec = <<"/", "L", "i", "v", "e", "O", "S", "/", "o", "v", "e", "r", "l", "a", "y", "-", "M", "-", "7">>

\* The apparent size of /overlay in KiB: dd leaves seek blocks of bs bytes
OverlayKiB == boot.overlaySize.blocks * (boot.overlaySize.bs \div 1024)

\* rd.live.overlay.size of the command line, or 32768 when it is absent or
\* empty
RequestedOverlayMiB ==
    IF boot.cmdline.rd_live_overlay_size.given = "value"
    THEN boot.cmdline.rd_live_overlay_size.value
    ELSE 32768

\* C14: once /overlay exists its apparent size is overlay_size x 1024 x 1024
\* bytes, that is overlay_size x 1024 KiB, for the rd.live.overlay.size of
\* the command line or 32768 when that is absent or empty; for the default
\* this is 33,554,432 KiB = 34,359,738,368 bytes.
C14_OverlayFileSize ==
    (BootRunning /\ "/overlay" \in boot.files) =>
        /\ boot.overlaySize.bs % 1024 = 0
        /\ OverlayKiB = RequestedOverlayMiB * 1024
        /\ boot.cmdline.rd_live_overlay_size.given # "value" => OverlayKiB = 33554432

\* /overlay allocated with the default size, and with a size given on the
\* command line
C14_Witness ==
    /\ BootRunning
    /\ "/overlay" \in boot.files
    /\ boot.cmdline.rd_live_overlay_size.given = "empty"
    /\ OverlayKiB = 33554432

C14_WitnessGiven ==
    /\ BootRunning
    /\ "/overlay" \in boot.files
    /\ boot.cmdline.rd_live_overlay_size = [given |-> "value", value |-> 1]
    /\ OverlayKiB = 1024

OverlayfsRequiredMessage == "OverlayFS is required but not available."

C16_WitnessRootLayout ==
    /\ BootRunning
    /\ boot.layout.proc
    /\ boot.FSIMG = boot.SQUASHED
    /\ boot.driver = "failed"
    /\ boot.died = OverlayfsRequiredMessage

\* modprobe overlay failed for an OverlayFS that was requested and not
\* required
OverlayfsFallback ==
    BootRunning /\ boot.driver = "failed" /\ boot.died # OverlayfsRequiredMessage

BootPast(pcs) == boot.pc \notin pcs

\* The loop device /overlay is attached to
OverlayLoops == {loop.dev : loop \in {a \in boot.loops : a.file = "/overlay"}}

LiveRwTables == {i \in 1..Len(boot.dm) : boot.dm[i].name = "live-rw"}

\* live-rw is a snapshot whose copy-on-write device is the loop device of
\* /overlay
LiveRwSnapshotOverOverlay ==
    /\ LiveRwTables # {}
    /\ \A i \in LiveRwTables :
         /\ boot.dm[i].target = "snapshot"
         /\ boot.dm[i].args[2] \in OverlayLoops

\* live-rw is a thin volume of the pool live-overlay-pool
LiveRwThin ==
    /\ LiveRwTables # {}
    /\ \A i \in LiveRwTables :
         /\ boot.dm[i].target = "thin"
         /\ boot.dm[i].args[1] = "/dev/mapper/live-overlay-pool"

\* After the fall-back: no abort, the request and the setup dropped, the
\* message recorded, /overlay allocated and attached, live-rw as given, and
\* the final mount instruction for /dev/mapper/live-rw
FallbackOutcome(liveRw) ==
    /\ boot.died = ""
    /\ boot.overlayfs = ""
    /\ boot.setup = ""
    /\ boot.m # <<>> /\ boot.m[1] = OverlayfsUnavailable
    /\ BootDid("info " \o OverlayfsUnavailable)
    /\ BootPast({"temporaryOverlay"}) =>
          "/overlay" \in boot.files /\ OverlayLoops # {}
    /\ BootPast({"temporaryOverlay", "blockLayer"}) => liveRw
    /\ BootPast({"temporaryOverlay", "blockLayer", "reloadUnits", "finalMount"}) =>
          /\ boot.rootMount = "live-rw"
          /\ boot.cmdline.DRACUT_SYSTEMD \/ boot.hook = LiveRwHook

BaseAttached == BootRunning /\ boot.BASE_LOOPDEV # ""

\* The conditions of direct read-write mode, in terms of the command line
\* and the payload found
DirectRequested ==
    \/ (boot.SQUASHED = "" /\ boot.cmdline.rd_live_ram /\ ~boot.cmdline.rd_live_overlay_overlayfs)
    \/ boot.cmdline.rd_writable_fsimg
    \/ boot.cmdline.rd_live_overlay \in {<<"n", "o", "n", "e">>, <<"N", "o", "n", "e">>, <<"N", "O", "N", "E">>}

BaseLoops == {loop \in boot.loops : loop.dev = boot.BASE_LOOPDEV}

DmTables(name) == {i \in 1..Len(boot.dm) : boot.dm[i].name = name}

OverlayCalled == boot.pc = "overlayPathspec" \/ boot.pathspec # <<>>

\* Direct read-write mode: the base attached writable, live-rw a linear
\* target over the whole base device, and nothing of do_live_overlay
DirectRw ==
    /\ boot.setup = "rw"
    /\ \A loop \in BaseLoops : ~loop.readonly
    /\ boot.pc # "linearRw" =>
          /\ Cardinality(DmTables("live-rw")) = 1
          /\ \A i \in DmTables("live-rw") :
               /\ boot.dm[i].target = "linear"
               /\ boot.dm[i].sz = BaseSectors
               /\ boot.dm[i].args = <<boot.BASE_LOOPDEV>>
    /\ ~OverlayCalled
    /\ \A i \in 1..Len(boot.dm) : boot.dm[i].name = "live-rw"
    /\ "/overlay" \notin boot.files

\* The overlay path: no linear live-rw, do_live_overlay called
OverlayMode ==
    /\ boot.setup # "rw"
    /\ OverlayCalled
    /\ \A i \in 1..Len(boot.dm) : boot.dm[i].target # "linear" \/ boot.dm[i].name = "live-base"

\* C21: the filesystem image is set up in direct read-write mode exactly
\* when the read-only-overlay flag is unset and one of the three conditions
\* holds; when one holds and the flag is set, setup is "yes", the base is
\* attached read-only and do_live_overlay is called.
C21_DirectRwExactly ==
    BaseAttached =>
        /\ (DirectRequested /\ ~boot.cmdline.rd_live_overlay_readonly) => DirectRw
        /\ ~(DirectRequested /\ ~boot.cmdline.rd_live_overlay_readonly) => OverlayMode
        /\ (DirectRequested /\ boot.cmdline.rd_live_overlay_readonly /\ boot.pc = "overlayPathspec")
              => /\ boot.setup = "yes"
                 /\ \A loop \in BaseLoops : loop.readonly

\* The same with the squashfs itself as the filesystem image set apart
C21_DirectRwExactlyOwnLoop ==
    (BaseAttached /\ boot.FSIMG # boot.SQUASHED) => C21_DirectRwExactly

\* do_live_overlay has returned
OverlayReturned ==
    /\ BootRunning
    /\ boot.pathspec # <<>>
    /\ boot.died = ""
    /\ boot.pc \in {"reloadUnits", "finalMount", "finish", "exited"}

\* C22: when OverlayFS is in effect at the block-layer step of
\* do_live_overlay, no device-mapper target exists afterwards: neither
\* live-ro, live-rw, live-base nor the thin pool live-overlay-pool.
C22_NoTargetsUnderOverlayfs ==
    (OverlayReturned /\ boot.overlayfs # "") => boot.dm = <<>>

\* Without rd.live.overlay.thin no target is created under OverlayFS
C22_NoTargetsUnderOverlayfsNotThin ==
    (OverlayReturned /\ boot.overlayfs # "" /\ boot.thin_snapshot = "") => boot.dm = <<>>

\* The temporary overlay step of do_live_overlay is over
PastTemporaryOverlay ==
    /\ BootRunning
    /\ boot.pathspec # <<>>
    /\ boot.died = ""
    /\ boot.pc \in {"blockLayer", "reloadUnits", "finalMount", "finish", "exited"}

\* A temporary store was allocated: the OverlayFS directories, or /overlay
\* on a loop device
TemporaryStoreAllocated ==
    \/ BootDid("mkdir -p /run/overlayfs /run/ovlwork")
    \/ (BootDid("dd if=/dev/null of=/overlay") /\ OverlayLoops # {})

\* A writable persistent raw overlay file was found and the overlay is not
\* read-only
PersistentRawOverlay ==
    /\ BootRunning
    /\ boot.found.kind = "file"
    /\ boot.found.oltype \in {"", "DM_snapshot_cow"}
    /\ ~boot.cmdline.rd_live_overlay_readonly

\* live-rw is a snapshot of the base loop device onto the loop device of
\* the persistent overlay file
LiveRwSnapshotOntoPersistent ==
    /\ Cardinality(DmTables("live-rw")) = 1
    /\ \A i \in DmTables("live-rw") :
         /\ boot.dm[i].target = "snapshot"
         /\ boot.dm[i].args[1] = boot.BASE_LOOPDEV
         /\ boot.dm[i].args[2] = "/dev/loop2"
         /\ [dev |-> "/dev/loop2", file |-> "/run/initramfs/overlayfs$pathspec", readonly |-> FALSE]
               \in boot.loops

TemporaryStoreExactly ==
    PastTemporaryOverlay =>
        (TemporaryStoreAllocated <=> (boot.setup = "" \/ boot.cmdline.rd_live_overlay_readonly))

C23_WitnessReadonly ==
    /\ PastTemporaryOverlay
    /\ boot.setup = "yes"
    /\ boot.cmdline.rd_live_overlay_readonly
    /\ TemporaryStoreAllocated

\* The command line names an overlay device and a path on it
ExplicitOverlayTarget ==
    /\ OverlayColons # {}
    /\ boot.devspec # <<>>
    /\ SubSeq(boot.overlay, Len(boot.devspec) + 2, Len(boot.overlay)) # <<>>

\* C24: the warning that blocks until acknowledged is shown only when the
\* command line gave a device:path overlay spec that turned out unusable;
\* with rd.live.overlay absent or "auto" the script does not block.
C24_PromptOnlyForExplicitTarget ==
    (BootRunning /\ BootDid("prompt")) =>
        /\ ExplicitOverlayTarget
        /\ boot.cmdline.rd_live_overlay \notin {<<>>, <<"a", "u", "t", "o">>}

\* With rd.live.overlay absent the script never blocks
C24_NoPromptWithoutOverlaySpec ==
    (BootRunning /\ boot.cmdline.rd_live_overlay = <<>>) => ~BootDid("prompt")

\* With rd.live.overlay=auto the script does not block
C24_NoPromptWithAuto ==
    (BootRunning /\ boot.cmdline.rd_live_overlay = <<"a", "u", "t", "o">>) => ~BootDid("prompt")

PastFindPayload == BootRunning /\ boot.pc \notin {"parse", "mediaCheck", "linkLiveDev", "mountLiveDev", "findPayload"}

\* No squashfs payload, RAM staging requested, and no filesystem image: the
\* mounted live device holds neither rootfs.img nor ext3fs.img
NothingToStage ==
    /\ PastFindPayload
    /\ LiveDevMounted
    /\ boot.SQUASHED = ""
    /\ boot.cmdline.rd_live_ram
    /\ ~boot.images.rootfs
    /\ ~boot.images.ext3fs

\* C25: with no squashfs payload and RAM staging requested, the copy to
\* /run/initramfs/rootfs.img is made and FSIMG set to it only if an
\* uncompressed image was found; otherwise FSIMG stays unset and no loop
\* device or device-mapper target is built.
C25_StagedOnlyIfImageFound ==
    NothingToStage =>
        /\ ~BootDid("dd if=$FSIMG of=/run/initramfs/rootfs.img")
        /\ boot.FSIMG = ""
        /\ ~BootDid("losetup -f --show $FSIMG")
        /\ boot.dm = <<>>

\* The persistent overlay file found is raw (empty or DM_snapshot_cow type)
\* and OverlayFS had been requested on the command line
RawOverlayDowngrade ==
    /\ BootRunning
    /\ boot.found.kind = "file"
    /\ boot.found.oltype \in {"", "DM_snapshot_cow"}
    /\ boot.cmdline.rd_live_overlay_overlayfs

\* live-rw is a snapshot whose copy-on-write device is the persistent
\* overlay's loop device, or whose origin is the snapshot live-ro of it
LiveRwSnapshotUsingPersistent ==
    /\ Cardinality(DmTables("live-rw")) = 1
    /\ \A i \in DmTables("live-rw") :
         /\ boot.dm[i].target = "snapshot"
         /\ \/ boot.dm[i].args[2] = "/dev/loop2"
            \/ /\ boot.dm[i].args[1] = "/dev/mapper/live-ro"
               /\ \E j \in DmTables("live-ro") : boot.dm[j].args[2] = "/dev/loop2"

\* After the downgrade: the request cleared, the setup fixed, the driver
\* never loaded, the marker under the service manager only, live-rw as
\* given, and the final mount instruction for /dev/mapper/live-rw
DowngradeOutcome(liveRw) ==
    /\ boot.overlayfs = ""
    /\ boot.setup = "yes"
    /\ boot.driver = ""
    /\ ~BootDid("modprobe overlay")
    /\ (\E i \in 1..Len(boot.reloadsysrootmountunit) :
            boot.reloadsysrootmountunit[i] = ":>/xor_overlayfs;")
          <=> boot.cmdline.DRACUT_SYSTEMD
    /\ OverlayReturned => liveRw
    /\ boot.pc \in {"finish", "exited"} =>
          /\ boot.rootMount = "live-rw"
          /\ boot.cmdline.DRACUT_SYSTEMD \/ boot.hook = LiveRwHook

SupportedIdTypes == {"uuid", "partuuid", "partlabel"}

\* <TYPE>= for the three supported identifier types
ExpectedIdPrefix(idType) ==
    CASE idType = "uuid" -> <<"U", "U", "I", "D", "=">>
      [] idType = "partuuid" -> <<"P", "A", "R", "T", "U", "U", "I", "D", "=">>
      [] idType = "partlabel" -> <<"P", "A", "R", "T", "L", "A", "B", "E", "L", "=">>

\* systemdFormatPartitionId on (idType, id) gives <TYPE>=<id> for a
\* supported type and an error otherwise
FormatsAsSystemd(idType, id) ==
    LET formatted == systemdFormatPartitionId(idType, id)
    IN  IF idType \in SupportedIdTypes
        THEN formatted.err = Nil /\ formatted.text = ExpectedIdPrefix(idType) \o id
        ELSE formatted.err # Nil /\ formatted.text = <<>>

GrubCalled == grubCall.fn = "updateGrubConfig"

\* C29: systemdFormatPartitionId returns <TYPE>=<value> with the type
\* upper-cased and the value unchanged for uuid, partuuid and partlabel and
\* an error for any other type; updateGrubConfig called with an unsupported
\* data or hash identifier type returns that error without reading or
\* writing grub.cfg.
C29_PartitionIdFormatted ==
    GrubCalled =>
        LET args == grubCall.args
            dataErr == systemdFormatPartitionId(args.dataPartitionIdType, args.dataPartitionId).err
            hashErr == systemdFormatPartitionId(args.hashPartitionIdType, args.hashPartitionId).err
        IN  /\ FormatsAsSystemd(args.dataPartitionIdType, args.dataPartitionId)
            /\ FormatsAsSystemd(args.hashPartitionIdType, args.hashPartitionId)
            /\ (args.dataPartitionIdType \notin SupportedIdTypes
                    \/ args.hashPartitionIdType \notin SupportedIdTypes)
                  => /\ grubCall.err = (IF dataErr # Nil THEN dataErr ELSE hashErr)
                     /\ grubCall.err # Nil
                     /\ grubCall.io = <<>>
                     /\ grubCfg = grubCall.before

\* A call with an unsupported hash identifier type on a file with lines,
\* and a call with supported types
C29_Witness ==
    /\ GrubCalled
    /\ grubCall.args.dataPartitionIdType = "partuuid"
    /\ grubCall.args.hashPartitionIdType = "devpath"
    /\ grubCall.err = <<"invalid idType provided (%s)", "devpath">>
    /\ grubCall.io = <<>>
    /\ grubCfg # <<>>

C29_WitnessSupported ==
    /\ GrubCalled
    /\ grubCall.args.dataPartitionIdType = "partlabel"
    /\ grubCall.err = Nil
    /\ systemdFormatPartitionId("partlabel", grubCall.args.dataPartitionId).text
          = <<"P", "A", "R", "T", "L", "A", "B", "E", "L", "=">> \o grubCall.args.dataPartitionId

(***************************************************************************)
(* Properties of enableVerityPartition and updateMarinerCfgWithInitramfs   *)
(***************************************************************************)
EnableVerityCalled == call.fn = "enableVerityPartition"

IsDracut(op) == op.cmd = "dracut -f --kver %s -a systemd-veritysetup"

IsMarinerCfgIo(op) == op.cmd \in {"ReadLines", "WriteLines"}

\* The version in the name of each kernel of the model
ExpectedKernelVersion(kernelFile) ==
    CASE kernelFile = <<"v", "m", "l", "i", "n", "u", "z", "-", "5">> -> <<"5">>
      [] kernelFile = <<"v", "m", "l", "i", "n", "u", "z", "-", "6", ".", "1">> -> <<"6", ".", "1">>

\* C27: enableVerityPartition runs dracut only when exactly one
\* boot/vmlinuz-* file exists, with --kver equal to that name without
\* vmlinuz-; with no kernel it returns the no-kernels error and with several
\* the multiple-kernels error, and then nothing is run and mariner.cfg is
\* not touched; mariner.cfg is read and written only after dracut succeeded.
C27_DracutOnlyForOneKernel ==
    EnableVerityCalled =>
        LET kernels == call.in.kernels
            ops == call.out.ops
        IN  /\ (\E i \in 1..Len(ops) : IsDracut(ops[i])) <=> Len(kernels) = 1
            /\ Len(kernels) = 0 =>
                  /\ call.out.err = <<"no kernels found in chroot environment">>
                  /\ ops = <<>>
                  /\ call.out.marinerCfg = call.in.marinerCfg
            /\ Len(kernels) > 1 =>
                  /\ call.out.err
                        = <<"multiple kernels found in chroot environment, expected only one">>
                  /\ ops = <<>>
                  /\ call.out.marinerCfg = call.in.marinerCfg
            /\ Len(kernels) = 1 =>
                  /\ IsDracut(ops[1])
                  /\ ops[1].arg = ExpectedKernelVersion(kernels[1])
                  /\ \A i \in 2..Len(ops) : ~IsDracut(ops[i])
            /\ \A i \in 1..Len(ops) :
                  IsMarinerCfgIo(ops[i]) =>
                      /\ call.env.dracutOk
                      /\ \E j \in 1..(i - 1) : IsDracut(ops[j])
            /\ call.out.marinerCfg # call.in.marinerCfg =>
                  /\ call.env.dracutOk
                  /\ \E i \in 1..Len(ops) : ops[i].cmd = "WriteLines"

\* One kernel, dracut succeeded and mariner.cfg was rewritten
C27_Witness ==
    /\ EnableVerityCalled
    /\ call.in.kernels = <<<<"v", "m", "l", "i", "n", "u", "z", "-", "6", ".", "1">>>>
    /\ call.out.ops[1].arg = <<"6", ".", "1">>
    /\ Len(call.out.ops) = 3
    /\ call.out.err = Nil
    /\ call.out.marinerCfg # call.in.marinerCfg

\* Two kernels: nothing run, nothing written
C27_WitnessMultiple ==
    /\ EnableVerityCalled
    /\ Len(call.in.kernels) = 2
    /\ Len(call.in.initramfs) = 1
    /\ call.in.marinerCfg # <<>>
    /\ call.out.ops = <<>>
    /\ call.out.err # Nil

\* One kernel and dracut failed: mariner.cfg neither read nor written
C27_WitnessDracutFailed ==
    /\ EnableVerityCalled
    /\ Len(call.in.kernels) = 1
    /\ ~call.env.dracutOk
    /\ Len(call.out.ops) = 1
    /\ call.out.err # Nil

UpdateMarinerCfgCalled == call.fn = "updateMarinerCfgWithInitramfs"

StartsWithMarinerInitrd(line) ==
    /\ Len(line) >= 15
    /\ SubSeq(line, 1, 15) = <<"m", "a", "r", "i", "n", "e", "r", "_", "i", "n", "i", "t", "r", "d", "=">>

\* C28: updateMarinerCfgWithInitramfs leaves mariner.cfg as it was, without
\* reading it, and returns the count error unless exactly one
\* boot/initramfs-* file exists; with exactly one, the file it writes has
\* the same number of lines in the same order, every line that starts with
\* mariner_initrd= replaced by mariner_initrd=<name of that file> and every
\* other line as it was.
C28_MarinerCfgRewritten ==
    UpdateMarinerCfgCalled =>
        LET initramfs == call.in.initramfs
            before == call.in.marinerCfg
            after == call.out.marinerCfg
        IN  /\ Len(initramfs) # 1 =>
                  /\ call.out.err = <<"expected one initramfs file, but found %d", Len(initramfs)>>
                  /\ call.out.ops = <<>>
                  /\ after = before
            /\ (Len(initramfs) = 1 /\ call.env.readOk /\ call.env.writeOk) =>
                  /\ call.out.err = Nil
                  /\ Len(after) = Len(before)
                  /\ \A i \in 1..Len(before) :
                        after[i] = IF StartsWithMarinerInitrd(before[i])
                                   THEN <<"m", "a", "r", "i", "n", "e", "r", "_", "i", "n", "i", "t", "r", "d", "=">> \o initramfs[1]
                                   ELSE before[i]
            /\ (Len(initramfs) = 1 /\ ~call.env.readOk) =>
                  call.out.err # Nil /\ after = before

\* A file with a mariner_initrd= line and another line, rewritten
C28_Witness ==
    /\ UpdateMarinerCfgCalled
    /\ call.in.initramfs = <<<<"i", "n", "i", "t", "r", "a", "m", "f", "s", "-", "5", ".", "i", "m", "g">>>>
    /\ call.in.marinerCfg = <<<<" ", "m", "a", "r", "i", "n", "e", "r", "_", "i", "n", "i", "t", "r", "d", "=", "x">>, <<"m", "a", "r", "i", "n", "e", "r", "_", "i", "n", "i", "t", "r", "d", "=", "i", "n", "i", "t", "r", "d", ".", "i", "m", "g", "-", "o", "l", "d">>>>
    /\ call.out.err = Nil
    /\ call.out.marinerCfg = <<<<" ", "m", "a", "r", "i", "n", "e", "r", "_", "i", "n", "i", "t", "r", "d", "=", "x">>, <<"m", "a", "r", "i", "n", "e", "r", "_", "i", "n", "i", "t", "r", "d", "=", "i", "n", "i", "t", "r", "a", "m", "f", "s", "-", "5", ".", "i", "m", "g">>>>

\* Two initramfs files: the count error and the file as it was
C28_WitnessCount ==
    /\ UpdateMarinerCfgCalled
    /\ Len(call.in.initramfs) = 2
    /\ call.out.err = <<"expected one initramfs file, but found %d", 2>>
    /\ call.in.marinerCfg # <<>>
    /\ call.out.marinerCfg = call.in.marinerCfg

(***************************************************************************)
(* Properties of validatePackageLists: the package fields it leaves        *)
(***************************************************************************)
ValidatePackageListsCalled == call.fn = "validatePackageLists"

\* How many times x occurs in the sequence s
Occurrences(s, x) == Cardinality({i \in 1..Len(s) : s[i] = x})

\* merged holds the inline names and the names in the list files, and
\* nothing else: pkgs.yaml lists the package q, empty.yaml nothing
IsMergeOf(merged, inline, lists) ==
    /\ Occurrences(merged, "p") = Occurrences(inline, "p")
    /\ Occurrences(merged, "q") = Occurrences(inline, "q") + Occurrences(lists, "pkgs.yaml")
    /\ Len(merged) = Len(inline) + Occurrences(lists, "pkgs.yaml")

\* C30: after validatePackageLists succeeds, Install, Remove and Update hold
\* the merge of the inline names with the contents of the referenced list
\* files and InstallLists, RemoveLists and UpdateLists are empty; when it
\* fails, the package fields are as they were before the call.
C30_PackagesMergedOrUntouched ==
    ValidatePackageListsCalled =>
        LET before == call.in.packages
            after == call.out.Packages
        IN  /\ call.out.err = Nil =>
                  /\ IsMergeOf(after.Install, before.Install, before.InstallLists)
                  /\ IsMergeOf(after.Remove, before.Remove, before.RemoveLists)
                  /\ IsMergeOf(after.Update, before.Update, before.UpdateLists)
                  /\ after.InstallLists = <<>>
                  /\ after.RemoveLists = <<>>
                  /\ after.UpdateLists = <<>>
                  /\ after.UpdateExistingPackages = before.UpdateExistingPackages
            /\ call.out.err # Nil => after = before

\* A successful call that merges a list file into the inline names
C30_Witness ==
    /\ ValidatePackageListsCalled
    /\ call.out.err = Nil
    /\ call.in.packages.Install = <<"p">>
    /\ call.in.packages.InstallLists = <<"pkgs.yaml">>
    /\ Len(call.out.Packages.Install) = 2
    /\ call.out.Packages.InstallLists = <<>>

\* A call that fails on the package-source rule after the list files were
\* collected, and one that fails on a list file
C30_WitnessNoSources ==
    /\ ValidatePackageListsCalled
    /\ call.out.err = ErrNeedRpmsSources
    /\ call.in.packages.RemoveLists = <<"pkgs.yaml">>
    /\ call.out.Packages.RemoveLists = <<"pkgs.yaml">>
    /\ call.out.Packages.Remove = call.in.packages.Remove

C30_WitnessUnreadableList ==
    /\ ValidatePackageListsCalled
    /\ call.out.err # Nil
    /\ call.in.packages.RemoveLists = <<"pkgs.yaml">>
    /\ call.in.packages.UpdateLists = <<"missing.yaml">>
    /\ call.out.Packages = call.in.packages

(***************************************************************************)
(* Properties of CustomizeImage: what has happened when validation or the  *)
(* translation of the output format fails                                  *)
(***************************************************************************)
InvalidImageConfig == ret # Nil /\ ret[1] = "invalid image config:"

SupportedOutputFormats == {"vhd", "vhdx", "raw", "qcow2", "iso"}

InputConversionOps ==
    {"ioutil.TempDir", "copyIsoImageContentsToFolder", "isoBuilderFromFolder",
     "createWriteableImageFromSquashfs", "qemu-img convert -O raw"}

InputConversionStarted == \E i \in 1..Len(trace) : trace[i].op \in InputConversionOps

UnsupportedOutputFormat ==
    params.outputImageFormat # "" /\ params.outputImageFormat \notin SupportedOutputFormats

\* One step of CustomizeImage seen from validation: nothing has been done
\* when validateConfig runs, a return from it carries the invalid-config
\* error and still nothing has been done, and with an unsupported output
\* format no step starts the input conversion and a return carries an error
ValidationComesFirst ==
    /\ pc = "validateConfig" =>
          /\ trace = <<>> /\ cp = NilCP
          /\ pc' = "returned" => (InvalidImageConfig' /\ trace' = <<>> /\ cp' = NilCP)
          /\ pc' \in {"returned", "initCommonParameters", "panicked"}
    /\ InvalidImageConfig' => (pc = "validateConfig" /\ pc' = "returned")
    /\ UnsupportedOutputFormat =>
          /\ ~InputConversionStarted'
          /\ pc' # "convertInput"
          /\ pc' = "returned" => ret' # Nil

\* C31: if validateConfig fails, CustomizeImage returns the 'invalid image
\* config' error before a directory is created, the input image converted or
\* any tool run; if the output format is a non-empty string other than vhd,
\* vhdx, raw, qcow2 and iso, CustomizeImage fails before the input image is
\* converted.
C31_ValidationBeforeAnyEffect == [][ValidationComesFirst]_vars

\* A run that returned the invalid-config error
C31_Witness ==
    /\ pc = "returned"
    /\ InvalidImageConfig
    /\ config.OS.present
    /\ trace = <<>>

\* A run with the format vmdk that passed validation and failed in
\* initCommonParameters after the working directory was created
C31_WitnessFormat ==
    /\ pc = "returned"
    /\ params.outputImageFormat = "vmdk"
    /\ ret = <<"failed to initialize image customizer state:",
               "unsupported image format (supported: vhd, vhdx, raw, qcow2): %s", "vmdk">>
    /\ trace = <<Op("os.MkdirAll", BuildDir, TRUE)>>

(***************************************************************************)
(* Properties of CustomizeImage: attachments of the working image          *)
(***************************************************************************)
\* The attachments an operation left in place when it returned
Held(op) == op.acquired \ op.released

AttachingStages ==
    {"customizeImageHelper", "shrinkFilesystemsHelper", "customizeVerityImageHelper",
     "extractPartitionsHelper"}

\* The attachments in place when the operation at position i of the run starts
HeldBefore(i) == UNION {Held(trace[j]) : j \in 1..(i - 1)}

C32_Witness ==
    /\ pc = "returned"
    /\ trace # <<>>
    /\ \E i \in 1..Len(trace) :
          /\ trace[i].op = "customizeImageHelper"
          /\ ~trace[i].ok
          /\ trace[i].acquired = {"imageConnection"}
          /\ Held(trace[i]) = {}

AppliedTwice ==
    /\ grubCall.fn = "updateGrubConfig"
    /\ grubCall.application = 2
    /\ grubCall.err = Nil

\* C40: updateGrubConfig is idempotent: applied a second time with the same
\* arguments to the file the first application wrote, it leaves every line
\* as it is; no linux line gets the verity arguments twice and the
\* rootdevice line stays set rootdevice=/dev/mapper/root.
C40_SecondApplicationChangesNothing ==
    AppliedTwice => grubCfg = grubCall.before

\* The second application leaves the number of lines and every line whose
\* trimmed text does not start with "linux " as it is, the rewritten
\* rootdevice line among them
C40_SecondApplicationKeepsOtherLines ==
    AppliedTwice =>
        /\ Len(grubCfg) = Len(grubCall.before)
        /\ \A i \in 1..Len(grubCfg) :
              ~HasPrefix(TrimSpace(grubCall.before[i]), LinuxPrefix)
                  => grubCfg[i] = grubCall.before[i]

\* A second application on a file with a linux line: the line is longer
\* than the one the first application wrote
C40_ArgumentsAppendedTwice ==
    /\ AppliedTwice
    /\ \E i \in 1..Len(grubCfg) : Len(grubCfg[i]) > Len(grubCall.before[i])

(***************************************************************************)
(* Verity stages that run at the same time on one host.  Each runs the     *)
(* start of customizeVerityImageHelper: findFreeNBDDevice, qemu-nbd -c,    *)
(* and at its return qemu-nbd -d.  A node has a pid file while a process   *)
(* holds it: owner is 0 for a free node, the number of the stage that      *)
(* attached its image, or OtherProcess.                                    *)
(***************************************************************************)
MaxVerityStages == 2

NbdNodes == {1, 2}

VerityStages == 1..MaxVerityStages

OtherProcess == MaxVerityStages + 1

\* /sys/class/block/nbd*/pid exists
HasPid == [n \in NbdNodes |-> nbd.owner[n] # 0]

NbdStageEntry == [pc |-> "findFreeNBDDevice", node |-> 0, nbdDevice |-> "", err |-> Nil]

NbdInit ==
    /\ PipelineIdle
    /\ CallsIdle
    /\ GrubIdle
    /\ verity = VerityIdle
    /\ boot = [pc |-> "idle"]
    /\ \E owner \in [NbdNodes -> {0, OtherProcess}] :
         nbd = [owner |-> owner, stage |-> [p \in VerityStages |-> NbdStageEntry]]

\* findFreeNBDDevice that marks the node it returns as taken
StageFindFreeNBDDevice_Reserving(p) ==
    /\ nbd.stage[p].pc = "findFreeNBDDevice"
    /\ LET found == findFreeNBDDevice(HasPid)
           node == FirstFree(HasPid, 1)
       IN  nbd' = IF found.err # Nil
                  THEN [nbd EXCEPT !.stage[p].pc = "returned",
                                   !.stage[p].err = <<"failed to find a free nbd device: %v">>
                                                       \o found.err]
                  ELSE [nbd EXCEPT !.stage[p].pc = "connect",
                                   !.stage[p].node = node,
                                   !.stage[p].nbdDevice = found.device,
                                   !.owner[node] = p]
    /\ UNCHANGED <<pipeVars, call, grubVars, verity, boot>>

\* findFreeNBDDevice: the first node without a pid file; the host is left as
\* it is
StageFindFreeNBDDevice(p) ==
    /\ nbd.stage[p].pc = "findFreeNBDDevice"
    /\ LET found == findFreeNBDDevice(HasPid)
           node == FirstFree(HasPid, 1)
       IN  nbd' = IF found.err # Nil
                  THEN [nbd EXCEPT !.stage[p].pc = "returned",
                                   !.stage[p].err = <<"failed to find a free nbd device: %v">>
                                                       \o found.err]
                  ELSE [nbd EXCEPT !.stage[p].pc = "connect",
                                   !.stage[p].node = node,
                                   !.stage[p].nbdDevice = found.device]
    /\ UNCHANGED <<pipeVars, call, grubVars, verity, boot>>

\* qemu-nbd -c on the node found: it fails on a node that is held by now,
\* and succeeds or fails on a free one
StageConnectNbd(p) ==
    /\ nbd.stage[p].pc = "connect"
    /\ \E ok \in BOOLEAN :
         LET node == nbd.stage[p].node IN
         nbd' = IF ok /\ nbd.owner[node] = 0
                THEN [nbd EXCEPT !.owner[node] = p, !.stage[p].pc = "attached"]
                ELSE [nbd EXCEPT !.stage[p].pc = "returned",
                                 !.stage[p].err =
                                     <<"failed to connect nbd %s to image %s: %s", "qemu-nbd">>]
    /\ UNCHANGED <<pipeVars, call, grubVars, verity, boot>>

\* The rest of the helper and the deferred qemu-nbd -d
StageDisconnectNbd(p) ==
    /\ nbd.stage[p].pc = "attached"
    /\ \E ok \in BOOLEAN :
         nbd' = [nbd EXCEPT !.owner[nbd.stage[p].node] = IF ok THEN 0 ELSE p,
                            !.stage[p].pc = "returned"]
    /\ UNCHANGED <<pipeVars, call, grubVars, verity, boot>>

\* Another user of the host attaches something to a free node
OtherProcessTakesNode ==
    /\ \E p \in VerityStages : nbd.stage[p].pc # "returned"
    /\ \E node \in NbdNodes :
         /\ nbd.owner[node] = 0
         /\ nbd' = [nbd EXCEPT !.owner[node] = OtherProcess]
    /\ UNCHANGED <<pipeVars, call, grubVars, verity, boot>>

NbdNext ==
    \/ \E p \in VerityStages : StageFindFreeNBDDevice(p)
    \/ \E p \in VerityStages : StageConnectNbd(p)
    \/ \E p \in VerityStages : StageDisconnectNbd(p)
    \/ OtherProcessTakesNode

\* Verity stages started together on one host
SpecNbd == NbdInit /\ [][NbdNext]_vars


(***************************************************************************)
(* Properties of the discovery of a free NBD node                          *)
(***************************************************************************)
Selected(p) == nbd.stage[p].pc = "connect"

\* C33: the discovery of a free NBD node is check-then-act without a
\* reservation: findFreeNBDDevice returns a node that had no pid file and
\* leaves the host as it was, so until the attach the node is not held by
\* the stage that selected it, another process can take it, and two stages
\* on one host can select the same node.
C33_DiscoveryReservesNothing ==
    /\ [][\A p \in VerityStages :
            (nbd.stage[p].pc = "findFreeNBDDevice" /\ nbd'.stage[p].pc = "connect")
                => /\ nbd'.owner = nbd.owner
                   /\ nbd.owner[nbd'.stage[p].node] = 0]_vars
    /\ [](\A p \in VerityStages :
            Selected(p) => nbd.owner[nbd.stage[p].node] # p)

\* Two stages have selected the same node and neither has attached its image
C33_Witness ==
    /\ Selected(1)
    /\ Selected(2)
    /\ nbd.stage[1].node = nbd.stage[2].node
    /\ nbd.stage[1].nbdDevice = "/dev/nbd0"
    /\ nbd.owner[nbd.stage[1].node] = 0

\* A stage has selected a node that another stage has attached since
C33_WitnessTaken ==
    /\ Selected(1)
    /\ nbd.owner[nbd.stage[1].node] = 2
    /\ nbd.stage[2].pc = "attached"

\* A stage has selected a node that another process has taken since
C33_WitnessOtherProcess ==
    /\ Selected(2)
    /\ nbd.owner[nbd.stage[2].node] = OtherProcess

(***************************************************************************)
(* The stages of CustomizeImage after validateConfig, for every            *)
(* configuration that passes config.IsValid                                *)
(***************************************************************************)
StagesInit ==
    /\ pc = "initCommonParameters"
    /\ params \in PipelineParams
    /\ config \in PipelineConfigs
    /\ cp = NilCP
    /\ err = Nil
    /\ ret = Nil
    /\ deferred = FALSE
    /\ trace = <<>>
    /\ CallsIdle
    /\ GrubIdle
    /\ verity = VerityIdle
    /\ boot = [pc |-> "idle"]
    /\ nbd = NbdIdle

StagesNext ==
    \/ InitCommonParameters
    \/ ConvertInputImageToWriteableFormat
    \/ CustomizePartitions
    \/ CustomizeImageHelper
    \/ ShrinkFilesystems
    \/ CustomizeVerity
    \/ CheckFileSystems
    \/ ExtractPartitions
    \/ ConvertWriteableFormatToOutputImage
    \/ DeferredCleanup

SpecStages == StagesInit /\ [][StagesNext]_vars


(***************************************************************************)
(* Properties of CustomizeImage: absent sections, the ISO builder and the  *)
(* output image                                                            *)
(***************************************************************************)
\* C34: CustomizeImage never dereferences an absent configuration section:
\* for every combination of presence and absence of Storage, OS and Iso that
\* passes config.IsValid, validation and customizeOSContents complete or
\* return an error, without a nil-pointer fault.
C34_NoFaultOnAbsentSection == pc # "panicked"

\* With the OS section present no step faults
C34_NoFaultWithOS == config.OS.present => pc # "panicked"

\* customizeOSContents on a configuration with Storage and without OS: the
\* test of cp.config.OS.Verity faults
C34_FaultInCustomizeOSContents ==
    /\ pc = "panicked"
    /\ config.Storage
    /\ ~config.OS.present
    /\ trace # <<>>
    /\ trace[Len(trace)].op \in {"customizeImageHelper", "shrinkFilesystemsHelper"}

\* convertWriteableFormatToOutputImage is about to call
\* cp.isoBuilder.recreateLiveOSIsoImage
RecreateCalled ==
    /\ pc = "convertOutput"
    /\ cp.outputImageFormat = "iso"
    /\ ~cp.customizeOSPartitions

C35_IsoBuilderSetForIsoInput ==
    (RecreateCalled /\ params.imageFile.ext = ".iso") => cp.isoBuilder

\* The operations that write the output image, and those of a run that
\* succeeded
WrittenBy ==
    {i \in 1..Len(trace) :
        /\ trace[i].op \in {"qemu-img convert (output)", "createLiveOSIsoImage",
                            "recreateLiveOSIsoImage"}
        /\ trace[i].ok}

ReturnedNil == pc = "returned" /\ ret = Nil

\* C36: whenever CustomizeImage returns nil, the output image has been
\* written by exactly one of the format conversion tool,
\* createLiveOSIsoImage and recreateLiveOSIsoImage, for every output format
\* initCommonParameters accepts, the empty string included.
C36_OutputWrittenOnce == ReturnedNil => Cardinality(WrittenBy) = 1

\* With a format that is not empty the output is written exactly once
C36_OutputWrittenOnceForNamedFormat ==
    (ReturnedNil /\ params.outputImageFormat # "") => Cardinality(WrittenBy) = 1

\* A run with the empty format that returned nil and wrote nothing
C36_NothingWritten ==
    /\ ReturnedNil
    /\ params.outputImageFormat = ""
    /\ WrittenBy = {}

(***************************************************************************)
(* Properties of customizeVerityImageHelper: the order of release          *)
(***************************************************************************)
Mounted == \E i \in VerityOps("safemount.NewMount") : verity.trace[i].ok

\* C37: on every return of customizeVerityImageHelper after the boot
\* partition was mounted, the boot partition is unmounted before the NBD
\* node is detached; on the success path the error-checked CleanClose of the
\* mount comes before both and its failure is what the helper returns.
C37_UnmountBeforeDetach ==
    (verity.pc = "returned" /\ Mounted) =>
        /\ \E m \in VerityOps("safemount.NewMount"),
              c \in VerityOps("bootPartitionMount.Close"),
              d \in VerityOps("qemu-nbd -d") :
                /\ m < c /\ c < d
                /\ VerityOps("bootPartitionMount.Close") = {c}
                /\ VerityOps("qemu-nbd -d") = {d}
                /\ \A k \in VerityOps("bootPartitionMount.CleanClose") : m < k /\ k < c
        /\ (grubCall # NoCall /\ grubCall.err = Nil)
              <=> Cardinality(VerityOps("bootPartitionMount.CleanClose")) = 1
        /\ VerityOps("bootPartitionMount.CleanClose") # {}
              => Cardinality(VerityOps("bootPartitionMount.CleanClose")) = 1
        /\ \A k \in VerityOps("bootPartitionMount.CleanClose") :
              verity.ret = IF verity.trace[k].ok THEN Nil ELSE <<"CleanClose">>

\* updateGrubConfig failed after the mount: the helper returned its error
\* with the mount closed and then the node detached
C37_Witness ==
    /\ verity.pc = "returned"
    /\ Mounted
    /\ grubCall # NoCall
    /\ grubCall.err # Nil
    /\ verity.ret = grubCall.err
    /\ VerityOps("bootPartitionMount.CleanClose") = {}
    /\ verity.trace[Len(verity.trace)].op = "qemu-nbd -d"
    /\ verity.trace[Len(verity.trace) - 1].op = "bootPartitionMount.Close"

\* The success path with a failed CleanClose
C37_WitnessCleanCloseFailed ==
    /\ verity.pc = "returned"
    /\ \E k \in VerityOps("bootPartitionMount.CleanClose") : ~verity.trace[k].ok
    /\ verity.ret = <<"CleanClose">>
    /\ verity.trace[Len(verity.trace)].op = "qemu-nbd -d"

(***************************************************************************)
(* Properties of the boot-time assembler: the size in the tables           *)
(***************************************************************************)
SizedTables == {"live-rw", "live-ro", "live-base"}

\* The tables written over a base loop device that was attached
TablesOverBase ==
    {i \in 1..Len(boot.dm) : boot.dm[i].name \in SizedTables /\ boot.BASE_LOOPDEV # ""}

\* C38: every device-mapper table that is created (live-rw linear, live-ro,
\* live-rw snapshot or thin, live-base) has the size sz read from the base
\* loop device earlier in the boot, also when the filesystem image is the
\* squashfs itself and its loop device is reused as the base.
C38_TablesUseBaseSize ==
    \A i \in TablesOverBase : boot.dm[i].sz = BaseSectors

\* With a base loop device of its own every table has the size read from it
C38_TablesUseBaseSizeOwnLoop ==
    boot.BASE_LOOPDEV = "/dev/loop1" => \A i \in TablesOverBase : boot.dm[i].sz = BaseSectors

\* The squashfs is the filesystem image and live-rw is written with an
\* empty size
C38_EmptySizeOnSquashfs ==
    /\ boot.FSIMG # ""
    /\ boot.FSIMG = boot.SQUASHED
    /\ boot.BASE_LOOPDEV = boot.SQUASHED_LOOPDEV
    /\ \E i \in DmTables("live-rw") : boot.dm[i].sz = 0 /\ boot.dm[i].target = "linear"

\* The same with the thin target
C38_EmptySizeOnSquashfsThin ==
    /\ boot.FSIMG # ""
    /\ boot.FSIMG = boot.SQUASHED
    /\ \E i \in DmTables("live-rw") : boot.dm[i].sz = 0 /\ boot.dm[i].target = "thin"

(***************************************************************************)
(* Properties of the boot-time assembler: the final mount instruction      *)
(***************************************************************************)
ExitedSuccessfully == boot.pc = "exited" /\ boot.status = 0

UpperAndWorkExist == {"/run/overlayfs", "/run/ovlwork"} \subseteq boot.files

\* C39: when the assembler exits successfully the final mount instruction
\* matches what was built: if it mounts /dev/mapper/live-rw, live-rw was
\* created exactly once in this boot; if it mounts an OverlayFS union,
\* /run/overlayfs and /run/ovlwork exist and a filesystem image was mounted
\* at /run/rootfsbase.
C39_FinalMountMatchesBuild ==
    ExitedSuccessfully =>
        /\ boot.rootMount = "live-rw" => Cardinality(DmTables("live-rw")) = 1
        /\ boot.rootMount = "overlay" =>
              /\ UpperAndWorkExist
              /\ boot.FSIMG # ""
              /\ "/run/rootfsbase" \in boot.mounted

\* live-rw is never created twice, and when do_live_overlay ran under
\* OverlayFS the upper and work locations exist
C39_NeverTwiceAndUpperAfterOverlay ==
    /\ Cardinality(DmTables("live-rw")) <= 1
    /\ (ExitedSuccessfully /\ boot.rootMount = "overlay" /\ OverlayCalled) => UpperAndWorkExist

\* A union mount over a filesystem image that was found, without upper and
\* work locations: direct read-write mode under OverlayFS
C39_UnionWithoutUpper ==
    /\ ExitedSuccessfully
    /\ boot.rootMount = "overlay"
    /\ boot.FSIMG # ""
    /\ boot.setup = "rw"
    /\ ~UpperAndWorkExist
    /\ Cardinality(DmTables("live-rw")) = 1

\* A mount of /dev/mapper/live-rw in a boot that found no filesystem image
\* and created no live-rw
C39_LiveRwNeverCreated ==
    /\ ExitedSuccessfully
    /\ boot.rootMount = "live-rw"
    /\ boot.FSIMG = ""
    /\ DmTables("live-rw") = {}

====
